---- MODULE Spec2Model ----
(***************************************************************************)
(* A model of the range-streaming subsystem (dht::range_streamer): the     *)
(* fetch-map planner, the normal and strict source resolvers, the          *)
(* add_*_ranges bookkeeping and the concurrent executor stream_async.      *)
(***************************************************************************)
EXTENDS Integers, Sequences, FiniteSets, TLC

(***************************************************************************)
(* Bounds of the model.                                                    *)
(***************************************************************************)
MaxPlanRanges == 2
MaxCandidates == 2
MaxRF == 2
MaxReplicas == 2
MaxDesired == 2
MaxAdds == 3
MaxNodes == 3
MaxKeyspaces == 2
MaxSmallRanges == 2
LimiterPermits == 2
MaxStreamCalls == 2
MaxRows == 2
MaxRangeTombstones == 1
MaxConsumeCalls == 2
MaxPartitionKeys == 2
MaxTimestamp == 2
MaxCodecRangeTombstones == 1
MaxBuildSchemas == 2
MaxFragmentSize == 3
MaxPartials == 3
MaxResultPartitions == 2
MaxPartitionRows == 2
MaxRowLimit == 3
MaxPartitionLimit == 2
MaxCount == 2
MaxSlots == 2
MaxMerges == 2

\* nr_ranges_total / 10 ranges go into one stream plan.
PlanDivisor == 10
\* A range count that gives stream plans of more than one range.
BigRangeCount == 2 * PlanDivisor + 1

(***************************************************************************)
(* Endpoints.  Self is utils::fb_utilities::get_broadcast_address().       *)
(***************************************************************************)
Endpoints == {"A", "B", "C"}
Self == "A"

\* streaming::stream_reason values used by the callers of range_streamer.
Reasons == {"bootstrap", "rebuild", "replace"}

\* A token range (start, end] is the pair <<start, end>>.
PlanRanges == {<<0, i>> : i \in 1..MaxPlanRanges}

\* An i_source_filter is modelled by the set of endpoints it rejects.
FilterUniverse == {{"B"}, {"C"}}

should_include(filter, address) == address \notin filter

\* Sequences over S of length at most n.
SeqUpTo(S, n) == UNION {[1..k -> S] : k \in 0..n}

\* The iteration orders of a container holding the elements of S.
Orderings(S) ==
    {o \in [1..Cardinality(S) -> S] : \A i, j \in 1..Cardinality(S) : o[i] = o[j] => i = j}

VARIABLES
    \* inputs and result of one get_range_fetch_map call
    ranges_with_sources, source_filters, reason, replication_factor,
    fm_pc, fm_result,
    \* the topology and liveness services, and one strict resolution
    range_addresses, pending_range_addresses, desired_ranges,
    gossiper_enabled, alive, st_pc, st_result,
    \* one normal-mode resolution
    ns_pc, ns_result,
    \* the configuration and topology facts use_strict_sources_for_ranges reads
    consistent_rangemovement, tokens_empty, everywhere_topology, nr_nodes_in_ring,
    proximity,
    \* the range_streamer object: _nr_tx_added, _nr_rx_added, _to_stream
    nr_tx_added, nr_rx_added, to_stream,
    \* the calls still to be made on the object, and the last call made
    call_budget, last_add,
    \* stream_async: the state of the call, the _to_stream entry being
    \* processed, the per-source tasks, the available units of _limiter,
    \* the abort source, and _to_stream as it was when the call started
    stream_pc, ks_index, tasks, limiter, abort_requested, to_stream_at_start,
    \* what the finally block of stream_async logged, the number of
    \* stream_async calls made, and the ranges streamed by the earlier calls
    finally_report, stream_calls, streamed_earlier,
    \* a frozen_mutation, the visitor calls its partition view still has to
    \* make, the frozen_mutation_consumer_adaptor, the events delivered to the
    \* consumer in the current consume call and whether the consumer asked to
    \* stop in it, the state and result of the call, the calls made,
    \* whether the current call is consume_gently, and the adaptor as the
    \* current call found it
    frozen, visit_queue, adaptor, events, stop_requested,
    consume_pc, consume_result, consume_calls, gently, adaptor_at_call,
    \* the mutations given to the frozen mutation codec, and what the last
    \* operation on them produced
    codec_in, codec_out,
    \* a result_merger: _partial, _max_rows, _max_partitions, and what get()
    \* returned
    partial, max_rows, max_partitions, merger_pc, get_result,
    \* a forward_result: its query_results, the outcome of the last merge()
    \* call on it, the argument of that call and the receiver as the call
    \* found it, and the number of merge() calls made
    query_results, merge_outcome, merge_args, merge_calls

planVars == <<ranges_with_sources, source_filters, reason, replication_factor,
              fm_pc, fm_result>>

ringVars == <<range_addresses, pending_range_addresses, gossiper_enabled, alive>>

strictVars == <<desired_ranges, st_pc, st_result, ns_pc, ns_result>>

configVars == <<consistent_rangemovement, tokens_empty, everywhere_topology,
                nr_nodes_in_ring, proximity>>

addVars == <<nr_tx_added, nr_rx_added, to_stream, call_budget, last_add>>

streamVars == <<stream_pc, ks_index, tasks, limiter, abort_requested, to_stream_at_start,
                finally_report, stream_calls, streamed_earlier>>

consumeVars == <<frozen, visit_queue, adaptor, events, stop_requested,
                 consume_pc, consume_result, consume_calls, gently, adaptor_at_call>>

codecVars == <<codec_in, codec_out>>

queryVars == <<partial, max_rows, max_partitions, merger_pc, get_result,
               query_results, merge_outcome, merge_args, merge_calls>>

vars == <<planVars, ringVars, strictVars, configVars, addVars, streamVars, consumeVars,
          codecVars, queryVars>>

(***************************************************************************)
(* range_streamer::get_range_fetch_map                                     *)
(***************************************************************************)

\* The filter loop of lines 48-54: some filter rejects the address.
Filtered(filters, address) == \E filter \in filters : ~should_include(filter, address)

\* A planner that lacks the `break` of line 63: every accepted candidate is used.
RECURSIVE ScanCandidatesNoBreak(_, _, _, _)
ScanCandidatesNoBreak(addresses, filters, i, found) ==
    IF i > Len(addresses) THEN [found_source |-> found, chosen |-> <<>>]
    ELSE IF addresses[i] = Self THEN ScanCandidatesNoBreak(addresses, filters, i + 1, TRUE)
    ELSE IF Filtered(filters, addresses[i])
         THEN ScanCandidatesNoBreak(addresses, filters, i + 1, found)
    ELSE LET rest == ScanCandidatesNoBreak(addresses, filters, i + 1, TRUE)
         IN  [found_source |-> TRUE, chosen |-> <<addresses[i]>> \o rest.chosen]

\* A planner that lacks the local-address test of line 42.
RECURSIVE ScanCandidatesNoSelfTest(_, _, _, _)
ScanCandidatesNoSelfTest(addresses, filters, i, found) ==
    IF i > Len(addresses) THEN [found_source |-> found, chosen |-> <<>>]
    ELSE IF Filtered(filters, addresses[i])
         THEN ScanCandidatesNoSelfTest(addresses, filters, i + 1, found)
    ELSE [found_source |-> TRUE, chosen |-> <<addresses[i]>>]

\* A planner that takes the first candidate without consulting the filters.
RECURSIVE ScanCandidatesNoFilter(_, _, _, _)
ScanCandidatesNoFilter(addresses, filters, i, found) ==
    IF i > Len(addresses) THEN [found_source |-> found, chosen |-> <<>>]
    ELSE IF addresses[i] = Self THEN ScanCandidatesNoFilter(addresses, filters, i + 1, TRUE)
    ELSE [found_source |-> TRUE, chosen |-> <<addresses[i]>>]

\* A planner that stops scanning at the local address instead of continuing.
RECURSIVE ScanCandidatesStopAtSelf(_, _, _, _)
ScanCandidatesStopAtSelf(addresses, filters, i, found) ==
    IF i > Len(addresses) THEN [found_source |-> found, chosen |-> <<>>]
    ELSE IF addresses[i] = Self THEN [found_source |-> TRUE, chosen |-> <<>>]
    ELSE IF Filtered(filters, addresses[i])
         THEN ScanCandidatesStopAtSelf(addresses, filters, i + 1, found)
    ELSE [found_source |-> TRUE, chosen |-> <<addresses[i]>>]

\* The inner loop of lines 40-64 from candidate i on: found_source and the
\* endpoints the range is pushed to (at most one, because of the break).
RECURSIVE ScanCandidates(_, _, _, _)
ScanCandidates(addresses, filters, i, found) ==
    IF i > Len(addresses) THEN [found_source |-> found, chosen |-> <<>>]
    ELSE IF addresses[i] = Self THEN ScanCandidates(addresses, filters, i + 1, TRUE)
    ELSE IF Filtered(filters, addresses[i])
         THEN ScanCandidates(addresses, filters, i + 1, found)
    ELSE [found_source |-> TRUE, chosen |-> <<addresses[i]>>]

\* range_fetch_map_map[address].push_back(range_) for every chosen address.
RECURSIVE PushRange(_, _, _)
PushRange(map, chosen, range_) ==
    IF chosen = <<>> THEN map
    ELSE LET address == Head(chosen)
             cur == IF address \in DOMAIN map THEN map[address] ELSE <<>>
             next == [a \in DOMAIN map \cup {address} |->
                        IF a = address THEN Append(cur, range_) ELSE map[a]]
         IN  PushRange(next, Tail(chosen), range_)

\* A planner that treats every missing source as the tolerated RF = 1 replace.
InsufficientSourcesAlwaysWarn(reason_, rf) == FALSE

\* A planner that tolerates a missing source under replace whatever the RF.
InsufficientSourcesIgnoreRF(reason_, rf) == ~(reason_ = "replace")

\* Lines 72-76: a range without source is fatal unless replace and rf == 1.
InsufficientSourcesFatal(reason_, rf) == ~(reason_ = "replace" /\ rf = 1)

NoFetchMap == [a \in {} |-> <<>>]

\* The outer loop of lines 37-78 over the ranges in iteration order `order`,
\* from position i on.  The result is the returned map, or the exception.
RECURSIVE FetchMapLoop(_, _, _, _, _, _, _, _)
FetchMapLoop(rws, filters, reason_, rf, order, i, map, warned) ==
    IF i > Len(order) THEN [threw |-> FALSE, error |-> "", map |-> map, warned |-> warned]
    ELSE LET range_ == order[i]
             scan == ScanCandidates(rws[range_], filters, 1, FALSE)
         IN  IF scan.found_source
             THEN FetchMapLoop(rws, filters, reason_, rf, order, i + 1,
                               PushRange(map, scan.chosen, range_), warned)
             ELSE IF InsufficientSourcesFatal(reason_, rf)
                  THEN [threw |-> TRUE,
                        error |-> "unable to find sufficient sources",
                        map |-> NoFetchMap, warned |-> warned]
                  ELSE FetchMapLoop(rws, filters, reason_, rf, order, i + 1, map,
                                    warned \cup {range_})

get_range_fetch_map(rws, filters, reason_, rf, order) ==
    FetchMapLoop(rws, filters, reason_, rf, order, 1, NoFetchMap, {})

\* The candidate lists a caller may hand to the planner.
CandidateLists == SeqUpTo(Endpoints, MaxCandidates)

RangesWithSources == UNION {[D -> CandidateLists] : D \in SUBSET PlanRanges}

NoResult == [threw |-> FALSE, error |-> "", map |-> NoFetchMap, warned |-> {}]

RingIdle ==
    /\ range_addresses = NoFetchMap
    /\ pending_range_addresses = NoFetchMap
    /\ gossiper_enabled = FALSE
    /\ alive = {}

StrictIdle ==
    /\ desired_ranges = <<>>
    /\ st_pc = "idle"
    /\ st_result = [threw |-> FALSE, error |-> "", range_sources |-> NoFetchMap]
    /\ ns_pc = "idle"
    /\ ns_result = [threw |-> FALSE, error |-> "", range_sources |-> NoFetchMap]

NoCall == [op |-> "none", keyspace |-> "", is_replacing |-> FALSE, ranges |-> <<>>,
           strict |-> FALSE, threw |-> FALSE, error |-> "", range_sources |-> NoFetchMap]

ConfigIdle ==
    /\ consistent_rangemovement = FALSE
    /\ tokens_empty = TRUE
    /\ everywhere_topology = FALSE
    /\ nr_nodes_in_ring = 1
    /\ proximity = <<>>

AddIdle ==
    /\ nr_tx_added = 0
    /\ nr_rx_added = 0
    /\ to_stream = <<>>
    /\ call_budget = 0
    /\ last_add = NoCall

StreamIdle ==
    /\ stream_pc = "idle"
    /\ ks_index = 0
    /\ tasks = <<>>
    /\ limiter = LimiterPermits
    /\ abort_requested = FALSE
    /\ to_stream_at_start = <<>>
    /\ finally_report = "none"
    /\ stream_calls = 0
    /\ streamed_earlier = <<>>

\* A frozen_mutation without content and an adaptor as constructed.
EmptyContent == [static_cells |-> 0, range_tombstones |-> <<>>, rows |-> <<>>]

NewAdaptor == [static_row |-> FALSE, rt_gen |-> <<>>, current_row |-> 0,
               stop_consuming |-> FALSE]

ConsumeIdle ==
    /\ frozen = EmptyContent
    /\ visit_queue = <<>>
    /\ adaptor = NewAdaptor
    /\ events = <<>>
    /\ stop_requested = FALSE
    /\ consume_pc = "idle"
    /\ consume_result = [stop |-> FALSE, error |-> ""]
    /\ consume_calls = 0
    /\ gently = FALSE
    /\ adaptor_at_call = NewAdaptor

\* No mutation was given to the codec.
CodecIdle ==
    /\ codec_in = <<>>
    /\ codec_out = [op |-> "none"]

\* A query::result without partitions, as result::result() of lines 317-323
\* builds it: no short read, zero rows and partitions, no last position.
EmptyResult == [partitions |-> <<>>, short_read |-> FALSE, row_count |-> 0,
                partition_count |-> 0, last_position |-> 0]

\* No result_merger and no forward_result is in use.
QueryIdle ==
    /\ partial = <<>>
    /\ max_rows = 0
    /\ max_partitions = 0
    /\ merger_pc = "idle"
    /\ get_result = EmptyResult
    /\ query_results = <<>>
    /\ merge_outcome = "none"
    /\ merge_args = [other |-> <<>>, reduction_types |-> <<>>, receiver |-> <<>>]
    /\ merge_calls = 0

PlanInit ==
    /\ ranges_with_sources \in RangesWithSources
    /\ source_filters \in SUBSET FilterUniverse
    /\ reason \in Reasons
    /\ replication_factor \in 1..MaxRF
    /\ fm_pc = "call"
    /\ fm_result = NoResult
    /\ RingIdle
    /\ StrictIdle
    /\ ConfigIdle
    /\ AddIdle
    /\ StreamIdle
    /\ ConsumeIdle
    /\ CodecIdle
    /\ QueryIdle

\* One call of get_range_fetch_map; the unordered_map is iterated in some order.
GetRangeFetchMap ==
    /\ fm_pc = "call"
    /\ \E order \in Orderings(DOMAIN ranges_with_sources) :
         fm_result' = get_range_fetch_map(ranges_with_sources, source_filters,
                                          reason, replication_factor, order)
    /\ fm_pc' = "returned"
    /\ UNCHANGED <<ranges_with_sources, source_filters, reason, replication_factor,
                   ringVars, strictVars, configVars, consumeVars,
                   codecVars, queryVars, addVars, streamVars>>

PlanNext == GetRangeFetchMap

SpecPlan == PlanInit /\ [][PlanNext]_vars

(***************************************************************************)
(* Properties of get_range_fetch_map                                       *)
(***************************************************************************)

\* The places (endpoint, index) at which range r occurs in a fetch map.
Occurrences(map, r) ==
    {o \in UNION {{a} \X DOMAIN map[a] : a \in DOMAIN map} : map[o[1]][o[2]] = r}

\* Candidate positions of a list that are neither local nor rejected by a filter.
ViablePositions(addresses, filters) ==
    {i \in DOMAIN addresses :
        /\ addresses[i] # Self
        /\ \A filter \in filters : should_include(filter, addresses[i])}

MinOf(S) == CHOOSE m \in S : \A n \in S : m <= n

\* A range that has neither a local copy nor any acceptable candidate.
Sourceless(addresses, filters) ==
    /\ \A i \in DOMAIN addresses : addresses[i] # Self
    /\ ViablePositions(addresses, filters) = {}

PlanReturned == fm_pc = "returned" /\ ~fm_result.threw

\* C1: when get_range_fetch_map returns normally, every input range occurs in
\* the list of at most one endpoint, at most once there, and the local
\* address is not a key of the returned map.
C1_SingleSourceNeverSelf ==
    PlanReturned =>
        /\ \A r \in DOMAIN ranges_with_sources :
               Cardinality(Occurrences(fm_result.map, r)) <= 1
        /\ Self \notin DOMAIN fm_result.map

\* A normal return that planned two ranges whose candidate lists name several
\* acceptable endpoints, one of them listing the local node first.
C1_Witness ==
    /\ PlanReturned
    /\ \E r1, r2 \in DOMAIN ranges_with_sources :
         /\ r1 # r2
         /\ Cardinality(ViablePositions(ranges_with_sources[r1], source_filters)) >= 2
         /\ Len(ranges_with_sources[r2]) = 2
         /\ ranges_with_sources[r2][1] = Self
         /\ ViablePositions(ranges_with_sources[r2], source_filters) # {}
         /\ Cardinality(Occurrences(fm_result.map, r1)) = 1
         /\ Cardinality(Occurrences(fm_result.map, r2)) = 1

\* C2: every range is assigned to the first endpoint of its candidate list
\* that is not the local node and that every registered filter accepts, and
\* to no other endpoint; a range without such a candidate is assigned to none.
C2_FirstAcceptedCandidateWins ==
    PlanReturned =>
        \A r \in DOMAIN ranges_with_sources :
            LET addresses == ranges_with_sources[r]
                viable == ViablePositions(addresses, source_filters)
            IN  IF viable = {}
                THEN Occurrences(fm_result.map, r) = {}
                ELSE /\ addresses[MinOf(viable)] \in DOMAIN fm_result.map
                     /\ \A o \in Occurrences(fm_result.map, r) : o[1] = addresses[MinOf(viable)]
                     /\ Occurrences(fm_result.map, r) # {}

\* Candidates [B, C] with B rejected by a filter give C, and candidates [C, B]
\* give C although B follows it.
C2_Witness ==
    /\ PlanReturned
    /\ source_filters = {{"B"}}
    /\ \E r1, r2 \in DOMAIN ranges_with_sources :
         /\ ranges_with_sources[r1] = <<"B", "C">>
         /\ ranges_with_sources[r2] = <<"C", "B">>
         /\ DOMAIN fm_result.map = {"C"}
         /\ Len(fm_result.map["C"]) = 2

SourcelessRanges ==
    {r \in DOMAIN ranges_with_sources : Sourceless(ranges_with_sources[r], source_filters)}

\* C3: a range with no local candidate and no accepted candidate makes the
\* call fail, unless the reason is replace and the replication factor is 1;
\* then the range is only warned about and left out, and the other ranges are
\* still planned.
C3_SourcelessFatalUnlessReplaceRF1 ==
    fm_pc = "returned" =>
        IF reason = "replace" /\ replication_factor = 1
        THEN /\ ~fm_result.threw
             /\ fm_result.warned = SourcelessRanges
             /\ \A r \in SourcelessRanges : Occurrences(fm_result.map, r) = {}
             /\ \A r \in DOMAIN ranges_with_sources :
                    ViablePositions(ranges_with_sources[r], source_filters) # {}
                        => Occurrences(fm_result.map, r) # {}
        ELSE /\ fm_result.threw <=> SourcelessRanges # {}
             /\ fm_result.warned = {}

\* A replace with RF = 1: one range has no source and is skipped with a
\* warning, another range is planned all the same.
C3_Witness ==
    /\ fm_pc = "returned"
    /\ reason = "replace" /\ replication_factor = 1
    /\ ~fm_result.threw
    /\ \E r1, r2 \in DOMAIN ranges_with_sources :
         /\ r1 \in fm_result.warned
         /\ ranges_with_sources[r1] # <<>>
         /\ Occurrences(fm_result.map, r2) # {}

(***************************************************************************)
(* The token ring as the topology service reports it.                      *)
(***************************************************************************)

\* The nodes of the ring other than the local node.
PeerNodes == Endpoints \ {Self}

\* Ring ranges the replication strategy may report, and ranges a caller may ask for.
ActiveKeys == {<<0, 2>>, <<2, 0>>}
DesiredUniverse == {<<0, 1>>, <<2, 0>>}

\* (start, end] wraps around the ring when start >= end.
is_wrap_around(r) == r[1] >= r[2]

\* range<token>::contains(other, dht::tri_compare) for ranges (start, end].
contains(src_range, other) ==
    IF is_wrap_around(src_range) /\ is_wrap_around(other)
    THEN src_range[1] <= other[1] /\ src_range[2] >= other[2]
    ELSE IF ~is_wrap_around(src_range) /\ ~is_wrap_around(other)
    THEN other[1] >= src_range[1] /\ other[2] <= src_range[2]
    ELSE IF is_wrap_around(other) THEN FALSE
    ELSE other[1] >= src_range[1] \/ other[2] <= src_range[2]

\* Replica lists: distinct endpoints, never empty.
DistinctSeqs(S, n) ==
    {q \in SeqUpTo(S, n) : q # <<>> /\ \A i, j \in DOMAIN q : q[i] = q[j] => i = j}

SeqRange(q) == {q[i] : i \in DOMAIN q}

NoSources == [r \in {} |-> <<>>]

(***************************************************************************)
(* range_streamer::get_all_ranges_with_strict_sources_for                  *)
(***************************************************************************)

\* A resolver that leaves the active replicas as they are.
EraseIfNothing(old_endpoints, new_endpoints) == old_endpoints

\* std::erase_if(old_endpoints, new_endpoints.contains) of lines 163-164.
RECURSIVE EraseIf(_, _)
EraseIf(old_endpoints, new_endpoints) ==
    IF old_endpoints = <<>> THEN <<>>
    ELSE IF Head(old_endpoints) \in new_endpoints
         THEN EraseIf(Tail(old_endpoints), new_endpoints)
         ELSE <<Head(old_endpoints)>> \o EraseIf(Tail(old_endpoints), new_endpoints)

\* A resolver that accepts any non-empty remainder of the set difference.
ExpectedOneEndpointLax(old_endpoints) == Len(old_endpoints) = 0

\* Line 165: the remainder of the set difference must be one endpoint.
ExpectedOneEndpointViolated(old_endpoints) == Len(old_endpoints) # 1

\* A resolver that omits the validation of line 179.
MultipleEndpointsNever(sources) == FALSE

\* Line 179: a desired range must have exactly one source.
MultipleEndpointsFound(sources) == Len(sources) # 1

\* A resolver that never consults the failure detector.
SourceIsDownNever(enabled, live, source_ip) == FALSE

\* A resolver that consults the failure detector even when gossip is disabled.
SourceIsDownIgnoringEnabled(enabled, live, source_ip) == source_ip \notin live

\* Line 185: gossiper.is_enabled() && !gossiper.is_alive(source_ip).
SourceIsDown(enabled, live, source_ip) == enabled /\ source_ip \notin live

\* range_sources[desired_range].push_back(endpoint)
PushSource(range_sources, desired_range, endpoint) ==
    [r \in DOMAIN range_sources \cup {desired_range} |->
        IF r = desired_range
        THEN Append(IF r \in DOMAIN range_sources THEN range_sources[r] ELSE <<>>, endpoint)
        ELSE range_sources[r]]

\* The loop of lines 147-171 over the active ring ranges, iterated in `order`.
RECURSIVE StrictSrcLoop(_, _, _, _, _, _, _)
StrictSrcLoop(desired_range, ra, pra, rf, order, k, range_sources) ==
    IF k > Len(order) THEN [threw |-> FALSE, error |-> "", range_sources |-> range_sources]
    ELSE IF ~contains(order[k], desired_range)
         THEN StrictSrcLoop(desired_range, ra, pra, rf, order, k + 1, range_sources)
    ELSE IF desired_range \notin DOMAIN pra
         THEN [threw |-> TRUE, error |-> "Can not find desired_range in pending_range_addresses",
               range_sources |-> range_sources]
    ELSE LET strict == Len(ra[order[k]]) = rf
             old_endpoints == IF strict THEN EraseIf(ra[order[k]], pra[desired_range])
                              ELSE ra[order[k]]
         IN  IF strict /\ ExpectedOneEndpointViolated(old_endpoints)
             THEN [threw |-> TRUE, error |-> "Expected 1 endpoint",
                   range_sources |-> range_sources]
             ELSE StrictSrcLoop(desired_range, ra, pra, rf, order, k + 1,
                                PushSource(range_sources, desired_range, Head(old_endpoints)))

\* The loop of lines 146-188 over the desired ranges, from position j on.
RECURSIVE StrictDesiredLoop(_, _, _, _, _, _, _, _, _)
StrictDesiredLoop(desired, ra, pra, rf, enabled, live, order, j, range_sources) ==
    IF j > Len(desired) THEN [threw |-> FALSE, error |-> "", range_sources |-> range_sources]
    ELSE LET inner == StrictSrcLoop(desired[j], ra, pra, rf, order, 1, range_sources)
             found == inner.range_sources
         IN  IF inner.threw THEN inner
             ELSE IF desired[j] \notin DOMAIN found
                  THEN [threw |-> TRUE, error |-> "No sources found", range_sources |-> found]
             ELSE IF MultipleEndpointsFound(found[desired[j]])
                  THEN [threw |-> TRUE, error |-> "Multiple endpoints found",
                        range_sources |-> found]
             ELSE IF SourceIsDown(enabled, live, found[desired[j]][1])
                  THEN [threw |-> TRUE,
                        error |-> "A node required to move the data consistently is down",
                        range_sources |-> found]
             ELSE StrictDesiredLoop(desired, ra, pra, rf, enabled, live, order, j + 1, found)

\* On an exception the field range_sources is the local map as it stood at the throw.
get_all_ranges_with_strict_sources_for(desired, ra, pra, rf, enabled, live, order) ==
    StrictDesiredLoop(desired, ra, pra, rf, enabled, live, order, 1, NoSources)

\* The joining node is not part of the active ring it resolves against.
ActiveMaps ==
    UNION {[D -> DistinctSeqs(PeerNodes, MaxReplicas)] : D \in SUBSET ActiveKeys}

PendingMaps == UNION {[D -> SUBSET PeerNodes] : D \in SUBSET DesiredUniverse}

DesiredLists == SeqUpTo(DesiredUniverse, MaxDesired)

NoStrictResult == [threw |-> FALSE, error |-> "", range_sources |-> NoSources]

PlanIdle ==
    /\ ranges_with_sources = NoSources
    /\ source_filters = {}
    /\ reason = "bootstrap"
    /\ fm_pc = "idle"
    /\ fm_result = NoResult

StrictInit ==
    /\ range_addresses \in ActiveMaps
    /\ pending_range_addresses \in PendingMaps
    /\ desired_ranges \in DesiredLists
    /\ replication_factor \in 1..MaxRF
    /\ gossiper_enabled \in BOOLEAN
    /\ alive \in SUBSET PeerNodes
    /\ st_pc = "call"
    /\ st_result = NoStrictResult
    /\ ns_pc = "idle"
    /\ ns_result = NoStrictResult
    /\ PlanIdle
    /\ ConfigIdle
    /\ AddIdle
    /\ StreamIdle
    /\ ConsumeIdle
    /\ CodecIdle
    /\ QueryIdle

\* One call of get_all_ranges_with_strict_sources_for.
GetStrictSources ==
    /\ st_pc = "call"
    /\ \E order \in Orderings(DOMAIN range_addresses) :
         st_result' = get_all_ranges_with_strict_sources_for(
                          desired_ranges, range_addresses, pending_range_addresses,
                          replication_factor, gossiper_enabled, alive, order)
    /\ st_pc' = "returned"
    /\ UNCHANGED <<planVars, ringVars, desired_ranges, ns_pc, ns_result, configVars,
                   consumeVars, codecVars, queryVars, addVars, streamVars>>

StrictNext == GetStrictSources

SpecStrict == StrictInit /\ [][StrictNext]_vars

\* The active ring ranges that contain a desired range.
ContainingRanges(d) == {src \in DOMAIN range_addresses : contains(src, d)}

\* How often a range is listed in a list of desired ranges.
TimesDesired(desired, d) == Cardinality({j \in DOMAIN desired : desired[j] = d})

\* The active replicas of a ring range that are no replicas in the pending view.
ActiveMinusPending(src, d) == SeqRange(range_addresses[src]) \ pending_range_addresses[d]

\* C4: strict resolution returns normally only if every desired range has
\* exactly one source: one containing ring range, listed once, one endpoint
\* recorded, and one endpoint left by the set difference wherever the active
\* replica count equals the replication factor.
C4_StrictExactlyOneSource ==
    (st_pc = "returned" /\ ~st_result.threw) =>
        \A j \in DOMAIN desired_ranges :
            LET d == desired_ranges[j]
            IN  /\ d \in DOMAIN st_result.range_sources
                /\ Len(st_result.range_sources[d]) = 1
                /\ Cardinality(ContainingRanges(d)) * TimesDesired(desired_ranges, d) = 1
                /\ d \in DOMAIN pending_range_addresses
                /\ \A src \in ContainingRanges(d) :
                       Len(range_addresses[src]) = replication_factor
                           => Cardinality(ActiveMinusPending(src, d)) = 1

\* A normal return for two desired ranges, one of them resolved strictly from
\* two active replicas of which one stays a replica in the pending view.
C4_Witness ==
    /\ st_pc = "returned" /\ ~st_result.threw
    /\ Len(desired_ranges) = 2
    /\ replication_factor = 2
    /\ \E src \in ContainingRanges(desired_ranges[1]) :
         /\ Len(range_addresses[src]) = 2
         /\ Cardinality(ActiveMinusPending(src, desired_ranges[1])) = 1

(***************************************************************************)
(* range_streamer::get_all_ranges_with_sources_for (normal mode)           *)
(***************************************************************************)

\* snitch->get_sorted_list_by_proximity(_address, addresses): the addresses in
\* the order of the snitch's ranking, nearest first.
get_sorted_list_by_proximity(ranking, addresses) ==
    SelectSeq(ranking, LAMBDA e : e \in SeqRange(addresses))

\* Lines 107-109: push every preferred endpoint.
RECURSIVE PushSources(_, _, _)
PushSources(range_sources, desired_range, preferred) ==
    IF preferred = <<>> THEN range_sources
    ELSE PushSources(PushSource(range_sources, desired_range, Head(preferred)),
                     desired_range, Tail(preferred))

\* The loop of lines 99-112 over the ring ranges, iterated in `order`.
RECURSIVE NormalSrcLoop(_, _, _, _, _, _, _)
NormalSrcLoop(desired_range, ra, ranking, order, k, range_sources, found) ==
    IF k > Len(order) THEN [found |-> found, range_sources |-> range_sources]
    ELSE IF contains(order[k], desired_range)
         THEN NormalSrcLoop(desired_range, ra, ranking, order, k + 1,
                            PushSources(range_sources, desired_range,
                                        get_sorted_list_by_proximity(ranking, ra[order[k]])),
                            TRUE)
         ELSE NormalSrcLoop(desired_range, ra, ranking, order, k + 1, range_sources, found)

\* A resolver that passes over a desired range no ring range contains.
RECURSIVE NormalDesiredLoopSkipping(_, _, _, _, _, _)
NormalDesiredLoopSkipping(desired, ra, ranking, order, j, range_sources) ==
    IF j > Len(desired) THEN [threw |-> FALSE, error |-> "", range_sources |-> range_sources]
    ELSE LET inner == NormalSrcLoop(desired[j], ra, ranking, order, 1, range_sources, FALSE)
         IN  NormalDesiredLoopSkipping(desired, ra, ranking, order, j + 1, inner.range_sources)

\* The loop of lines 97-117 over the desired ranges, from position j on.
RECURSIVE NormalDesiredLoop(_, _, _, _, _, _)
NormalDesiredLoop(desired, ra, ranking, order, j, range_sources) ==
    IF j > Len(desired) THEN [threw |-> FALSE, error |-> "", range_sources |-> range_sources]
    ELSE LET inner == NormalSrcLoop(desired[j], ra, ranking, order, 1, range_sources, FALSE)
         IN  IF ~inner.found
             THEN [threw |-> TRUE, error |-> "No sources found",
                   range_sources |-> inner.range_sources]
             ELSE NormalDesiredLoop(desired, ra, ranking, order, j + 1, inner.range_sources)

get_all_ranges_with_sources_for(desired, ra, ranking, order) ==
    NormalDesiredLoop(desired, ra, ranking, order, 1, NoSources)

\* Ring ranges and desired ranges of the normal-mode calls: (0, 1] lies in
\* two of the ring ranges, (3, 0] in one.
NormalKeys == {<<0, 2>>, <<0, 3>>, <<3, 0>>}
NormalDesiredUniverse == {<<0, 1>>, <<3, 0>>}

\* The snitch's rankings of the endpoints, nearest first.
ProximityOrders == {<<"A", "B", "C">>, <<"A", "C", "B">>}

NormalMaps ==
    UNION {[D -> DistinctSeqs(Endpoints, MaxReplicas)] : D \in SUBSET NormalKeys}

NormalInit ==
    /\ range_addresses \in NormalMaps
    /\ desired_ranges \in SeqUpTo(NormalDesiredUniverse, MaxDesired)
    /\ proximity \in ProximityOrders
    /\ ns_pc = "call"
    /\ ns_result = NoStrictResult
    /\ pending_range_addresses = NoFetchMap
    /\ gossiper_enabled = FALSE
    /\ alive = {}
    /\ st_pc = "idle"
    /\ st_result = NoStrictResult
    /\ replication_factor = 1
    /\ consistent_rangemovement = FALSE
    /\ tokens_empty = TRUE
    /\ everywhere_topology = FALSE
    /\ nr_nodes_in_ring = 1
    /\ PlanIdle
    /\ AddIdle
    /\ StreamIdle
    /\ ConsumeIdle
    /\ CodecIdle
    /\ QueryIdle

\* One call of get_all_ranges_with_sources_for.
GetNormalSources ==
    /\ ns_pc = "call"
    /\ \E order \in Orderings(DOMAIN range_addresses) :
         ns_result' = get_all_ranges_with_sources_for(desired_ranges, range_addresses,
                                                     proximity, order)
    /\ ns_pc' = "returned"
    /\ UNCHANGED <<planVars, ringVars, desired_ranges, st_pc, st_result, configVars,
                   consumeVars, codecVars, queryVars, addVars, streamVars>>

NormalNext == GetNormalSources

SpecNormal == NormalInit /\ [][NormalNext]_vars

(***************************************************************************)
(* range_streamer::use_strict_sources_for_ranges, add_tx_ranges,           *)
(* add_rx_ranges and add_ranges                                            *)
(***************************************************************************)

\* An eligibility test that demands more nodes than replicas.
UseStrictStrictlyMoreNodes(consistent, no_tokens, everywhere, nr_nodes, rf) ==
    consistent /\ ~no_tokens /\ ~everywhere /\ nr_nodes > rf

\* Lines 200-203.
use_strict_sources_for_ranges(consistent, no_tokens, everywhere, nr_nodes, rf) ==
    consistent /\ ~no_tokens /\ ~everywhere /\ nr_nodes >= rf

\* A choice of resolver that looks at the eligibility only.
StrictModeChosenDespiteReplace(is_replacing, eligible) == eligible

\* Line 232: !is_replacing && use_strict_sources_for_ranges(keyspace_name).
StrictModeChosen(is_replacing, eligible) == ~is_replacing /\ eligible

\* A resolution that falls back to the normal resolver when a source is down.
ResolveSourcesWithFallback(strict, desired, ra, pra, rf, enabled, live, ranking, order) ==
    LET r == get_all_ranges_with_strict_sources_for(desired, ra, pra, rf, enabled, live, order)
    IN  IF strict /\ ~(r.threw /\ r.error = "A node required to move the data consistently is down")
        THEN r
        ELSE get_all_ranges_with_sources_for(desired, ra, ranking, order)

\* Lines 232-234: the resolver chosen by the mode.
ResolveSources(strict, desired, ra, pra, rf, enabled, live, ranking, order) ==
    IF strict
    THEN get_all_ranges_with_strict_sources_for(desired, ra, pra, rf, enabled, live, order)
    ELSE get_all_ranges_with_sources_for(desired, ra, ranking, order)

\* An add_rx_ranges that lacks the test of _nr_tx_added.
RxAfterTxNever(nr_tx) == FALSE

\* Line 210: add_tx_ranges after ranges to receive were added.
TxAfterRx(nr_rx) == nr_rx # 0

\* Line 218: add_rx_ranges after ranges to send were added.
RxAfterTx(nr_tx) == nr_tx # 0

\* Line 228: add_ranges after ranges to send were added.
AddRangesAfterTx(nr_tx) == nr_tx # 0

\* An add_ranges that counts the call only when it enqueued an entry.
CountRxAddedOnSuccess(nr_rx, failed) == IF failed THEN nr_rx ELSE nr_rx + 1

\* Line 231: _nr_rx_added++ precedes the resolution of the sources, so the call
\* is counted whether or not the resolution and the planning fail.
CountRxAdded(nr_rx, failed) == nr_rx + 1

MixedError == "Mixed sending and receiving is not supported"

Keyspaces == {"ks1", "ks2"}

\* _to_stream.emplace(keyspace_name, ranges_per_endpoint)
Emplace(stream, keyspace_name, ranges_per_endpoint) ==
    Append(stream, [keyspace |-> keyspace_name, ranges_per_endpoint |-> ranges_per_endpoint])

\* The maps a caller hands to add_tx_ranges and add_rx_ranges.
AddedMaps ==
    {[e \in S |-> IF e = "B" THEN << <<0, 1>>, <<2, 0>> >> ELSE << <<0, 1>> >>] :
        S \in {{}, {"B"}, {"B", "C"}}}

DirectCall(op, keyspace_name, failed) ==
    [op |-> op, keyspace |-> keyspace_name, is_replacing |-> FALSE, ranges |-> <<>>,
     strict |-> FALSE, threw |-> failed, error |-> IF failed THEN MixedError ELSE "",
     range_sources |-> NoSources]

\* add_tx_ranges, lines 209-215.
AddTxRanges ==
    /\ call_budget > 0
    /\ call_budget' = call_budget - 1
    /\ \E keyspace_name \in Keyspaces, ranges_per_endpoint \in AddedMaps :
         IF TxAfterRx(nr_rx_added)
         THEN /\ last_add' = DirectCall("add_tx_ranges", keyspace_name, TRUE)
              /\ UNCHANGED <<nr_tx_added, to_stream>>
         ELSE /\ nr_tx_added' = nr_tx_added + 1
              /\ to_stream' = Emplace(to_stream, keyspace_name, ranges_per_endpoint)
              /\ last_add' = DirectCall("add_tx_ranges", keyspace_name, FALSE)
    /\ UNCHANGED <<nr_rx_added, planVars, ringVars, strictVars, configVars, consumeVars,
                   codecVars, queryVars,
                   streamVars>>

\* add_rx_ranges, lines 217-223.
AddRxRanges ==
    /\ call_budget > 0
    /\ call_budget' = call_budget - 1
    /\ \E keyspace_name \in Keyspaces, ranges_per_endpoint \in AddedMaps :
         IF RxAfterTx(nr_tx_added)
         THEN /\ last_add' = DirectCall("add_rx_ranges", keyspace_name, TRUE)
              /\ UNCHANGED <<nr_rx_added, to_stream>>
         ELSE /\ nr_rx_added' = nr_rx_added + 1
              /\ to_stream' = Emplace(to_stream, keyspace_name, ranges_per_endpoint)
              /\ last_add' = DirectCall("add_rx_ranges", keyspace_name, FALSE)
    /\ UNCHANGED <<nr_tx_added, planVars, ringVars, strictVars, configVars, consumeVars,
                   codecVars, queryVars,
                   streamVars>>

\* add_ranges, lines 226-251: the direction test, the resolution of the
\* sources in the chosen mode, the planning of the fetch map and its enqueuing.
AddRangesIn(keyspaces) ==
    /\ call_budget > 0
    /\ call_budget' = call_budget - 1
    /\ \E keyspace_name \in keyspaces, ranges \in DesiredLists, is_replacing \in BOOLEAN,
          order \in Orderings(DOMAIN range_addresses) :
         LET strict == StrictModeChosen(is_replacing,
                           use_strict_sources_for_ranges(consistent_rangemovement, tokens_empty,
                               everywhere_topology, nr_nodes_in_ring, replication_factor))
             call == [op |-> "add_ranges", keyspace |-> keyspace_name,
                      is_replacing |-> is_replacing, ranges |-> ranges, strict |-> strict,
                      threw |-> FALSE, error |-> "", range_sources |-> NoSources]
             ranges_for_keyspace ==
                 ResolveSources(strict, ranges, range_addresses, pending_range_addresses,
                                replication_factor, gossiper_enabled, alive, proximity, order)
         IN  IF AddRangesAfterTx(nr_tx_added)
             THEN /\ last_add' = [call EXCEPT !.strict = FALSE, !.threw = TRUE,
                                              !.error = MixedError]
                  /\ UNCHANGED <<nr_rx_added, to_stream>>
             ELSE IF ranges_for_keyspace.threw
                     THEN /\ nr_rx_added' = CountRxAdded(nr_rx_added, TRUE)
                          /\ last_add' = [call EXCEPT !.threw = TRUE,
                                              !.error = ranges_for_keyspace.error,
                                              !.range_sources = ranges_for_keyspace.range_sources]
                          /\ UNCHANGED to_stream
                     ELSE \E fm_order \in Orderings(DOMAIN ranges_for_keyspace.range_sources) :
                            LET range_fetch_map ==
                                    get_range_fetch_map(ranges_for_keyspace.range_sources,
                                        source_filters, reason, replication_factor, fm_order)
                                resolved == [call EXCEPT !.range_sources =
                                                 ranges_for_keyspace.range_sources]
                            IN  /\ nr_rx_added' = CountRxAdded(nr_rx_added, range_fetch_map.threw)
                                /\ IF range_fetch_map.threw
                                   THEN /\ last_add' = [resolved EXCEPT !.threw = TRUE,
                                                           !.error = range_fetch_map.error]
                                        /\ UNCHANGED to_stream
                                   ELSE /\ last_add' = resolved
                                        /\ to_stream' = Emplace(to_stream, keyspace_name,
                                                                range_fetch_map.map)
    /\ UNCHANGED <<nr_tx_added, ranges_with_sources, source_filters, reason,
                   replication_factor, fm_pc, fm_result, ringVars, strictVars, configVars,
                   consumeVars, codecVars, queryVars, streamVars>>

AddRanges == AddRangesIn(Keyspaces)

FreshStreamer ==
    /\ nr_tx_added = 0
    /\ nr_rx_added = 0
    /\ to_stream = <<>>
    /\ last_add = NoCall

PlannerUnused ==
    /\ ranges_with_sources = NoSources
    /\ fm_pc = "idle"
    /\ fm_result = NoResult

\* A streamer on which up to MaxAdds add_* calls are made, in a ring in which
\* range (0, 1] is replicated by B and C and the join moves it off one or none
\* of them.
AddInit ==
    /\ range_addresses = [r \in {<<0, 2>>} |-> <<"B", "C">>]
    /\ pending_range_addresses \in [{<<0, 1>>} -> {{"C"}, {"B", "C"}}]
    /\ replication_factor = 2
    /\ gossiper_enabled = TRUE
    /\ alive \in {PeerNodes, {"C"}}
    /\ consistent_rangemovement \in BOOLEAN
    /\ tokens_empty = FALSE
    /\ everywhere_topology = FALSE
    /\ nr_nodes_in_ring = MaxNodes
    /\ proximity = <<"A", "C", "B">>
    /\ source_filters \in {{}, FilterUniverse}
    /\ reason = "bootstrap"
    /\ call_budget = MaxAdds
    /\ FreshStreamer
    /\ PlannerUnused
    /\ StrictIdle
    /\ StreamIdle
    /\ ConsumeIdle
    /\ CodecIdle
    /\ QueryIdle

AddNext == AddTxRanges \/ AddRxRanges \/ AddRanges

SpecAdd == AddInit /\ [][AddNext]_vars

\* One add_ranges call on a fresh streamer, in any ring, configuration and
\* liveness state of the bounds.
AddRangesInit ==
    /\ range_addresses \in [{<<0, 2>>} -> DistinctSeqs(PeerNodes, MaxReplicas)]
    /\ pending_range_addresses \in UNION {[D -> SUBSET PeerNodes] : D \in SUBSET {<<0, 1>>}}
    /\ replication_factor \in 1..MaxRF
    /\ gossiper_enabled \in BOOLEAN
    /\ alive \in SUBSET PeerNodes
    /\ consistent_rangemovement \in BOOLEAN
    /\ tokens_empty \in BOOLEAN
    /\ everywhere_topology \in BOOLEAN
    /\ nr_nodes_in_ring \in 1..MaxNodes
    /\ proximity = <<"A", "C", "B">>
    /\ source_filters \in {{}, {{"B"}}}
    /\ reason \in {"bootstrap", "replace"}
    /\ call_budget = 1
    /\ FreshStreamer
    /\ PlannerUnused
    /\ StrictIdle
    /\ StreamIdle
    /\ ConsumeIdle
    /\ CodecIdle
    /\ QueryIdle

AddRangesNext == AddRangesIn({"ks1"})

SpecAddRanges == AddRangesInit /\ [][AddRangesNext]_vars

(***************************************************************************)
(* Properties of the add_* calls                                           *)
(***************************************************************************)

\* A step that is a call of add_tx_ranges, add_rx_ranges or add_ranges.
AddCallStep == call_budget' < call_budget

\* Strict resolution of desired[j] meets none of the resolver's own errors.
StrictlyResolvable(desired, j) ==
    LET d == desired[j]
    IN  /\ Cardinality(ContainingRanges(d)) = 1
        /\ d \in DOMAIN pending_range_addresses
        /\ \A i \in 1..(j - 1) : desired[i] # d
        /\ \A src \in ContainingRanges(d) :
               Len(range_addresses[src]) = replication_factor
                   => Cardinality(ActiveMinusPending(src, d)) = 1

\* The source strict resolution determines for a resolvable range.
StrictSource(d) ==
    LET src == CHOOSE x \in ContainingRanges(d) : TRUE
    IN  IF Len(range_addresses[src]) = replication_factor
        THEN CHOOSE e \in ActiveMinusPending(src, d) : TRUE
        ELSE range_addresses[src][1]

\* Strict resolution of the list gets as far as a range whose single source is not alive.
ReachesDeadSource(desired) ==
    \E j \in DOMAIN desired :
        /\ \A i \in 1..j : StrictlyResolvable(desired, i)
        /\ \A i \in 1..(j - 1) : StrictSource(desired[i]) \in alive
        /\ StrictSource(desired[j]) \notin alive

DownError == "A node required to move the data consistently is down"

C5_Step ==
    (AddCallStep /\ last_add'.op = "add_ranges" /\ last_add'.strict) =>
        /\ (gossiper_enabled /\ ReachesDeadSource(last_add'.ranges)) =>
               /\ last_add'.threw
               /\ last_add'.error = DownError
               /\ to_stream' = to_stream
        /\ ~gossiper_enabled => last_add'.error # DownError

\* C5: an add_ranges call in strict mode that resolves a range to a single
\* source that is not alive fails with the 'node required to move the data
\* consistently is down' error when the gossiper is enabled, and enqueues
\* nothing; with the gossiper disabled that error is never raised.
C5_DeadStrictSourceIsFatal == [][C5_Step]_vars

\* A strict add_ranges call whose first range resolves to a dead source.
C5_Witness ==
    /\ last_add.op = "add_ranges" /\ last_add.strict
    /\ gossiper_enabled
    /\ ReachesDeadSource(last_add.ranges)
    /\ last_add.error = DownError
    /\ to_stream = <<>>

C6_Step ==
    AddCallStep =>
        LET sending == last_add'.op = "add_tx_ranges"
            receiving == last_add'.op \in {"add_rx_ranges", "add_ranges"}
        IN  ((sending /\ nr_rx_added # 0) \/ (receiving /\ nr_tx_added # 0)) =>
                /\ last_add'.threw
                /\ last_add'.error = MixedError
                /\ to_stream' = to_stream
                /\ nr_tx_added' = nr_tx_added
                /\ nr_rx_added' = nr_rx_added

\* C6: the tx-added and rx-added counters are never both non-zero, and a call
\* in the direction opposite to the one already added fails with 'Mixed
\* sending and receiving is not supported' and leaves the work list and the
\* counters as they were.
C6_NeverMixedDirections ==
    /\ [](nr_tx_added = 0 \/ nr_rx_added = 0)
    /\ [][C6_Step]_vars

\* Two accepted add_tx_ranges calls followed by a rejected add_rx_ranges call.
C6_Witness ==
    /\ nr_tx_added = 2
    /\ last_add.op = "add_rx_ranges"
    /\ last_add.threw /\ last_add.error = MixedError
    /\ Len(to_stream) = 2

(***************************************************************************)
(* range_streamer::stream_async and range_streamer::nr_ranges_to_stream    *)
(***************************************************************************)

\* The peers a work list may name.
StreamSources == {"B", "C", "D"}

\* The token ranges (0, 1], ..., (0, n] as a range vector.
RangeList(n) == [i \in 1..n |-> <<0, i>>]

RECURSIVE SumLens(_, _)
SumLens(ranges_per_endpoint, sources) ==
    IF sources = {} THEN 0
    ELSE LET source == CHOOSE x \in sources : TRUE
         IN  Len(ranges_per_endpoint[source]) + SumLens(ranges_per_endpoint, sources \ {source})

\* A count that stops after the first entry of _to_stream.
NrRangesOfFirstEntry(stream, k) ==
    IF k > Len(stream) \/ k > 1 THEN 0
    ELSE SumLens(stream[k].ranges_per_endpoint, DOMAIN stream[k].ranges_per_endpoint)

\* nr_ranges_to_stream(), lines 329-342, over the entries from position k on.
RECURSIVE NrRangesFrom(_, _)
NrRangesFrom(stream, k) ==
    IF k > Len(stream) THEN 0
    ELSE SumLens(stream[k].ranges_per_endpoint, DOMAIN stream[k].ranges_per_endpoint)
         + NrRangesFrom(stream, k + 1)

nr_ranges_to_stream == NrRangesFrom(to_stream, 1)

\* A task that puts one range into every stream plan.
NrRangesPerStreamPlanOne(nr_ranges_total) == 1

\* Line 274.
nr_ranges_per_stream_plan(nr_ranges_total) == nr_ranges_total \div PlanDivisor

\* A loop that takes the ranges from the back of range_vec.
RECURSIVE FillStreamPlanFromBack(_, _, _)
FillStreamPlanFromBack(range_vec, ranges_to_stream, per_stream_plan) ==
    IF range_vec = <<>> THEN [range_vec |-> range_vec, ranges_to_stream |-> ranges_to_stream]
    ELSE LET last == range_vec[Len(range_vec)]
             rest == SubSeq(range_vec, 1, Len(range_vec) - 1)
         IN  IF Len(ranges_to_stream) + 1 < per_stream_plan
             THEN FillStreamPlanFromBack(rest, Append(ranges_to_stream, last), per_stream_plan)
             ELSE [range_vec |-> rest, ranges_to_stream |-> Append(ranges_to_stream, last)]

\* The loop of lines 293-301 up to its next do_streaming(): ranges move from
\* the front of range_vec to ranges_to_stream until the stream plan is full or
\* range_vec is empty.
RECURSIVE FillStreamPlan(_, _, _)
FillStreamPlan(range_vec, ranges_to_stream, per_stream_plan) ==
    IF range_vec = <<>> THEN [range_vec |-> range_vec, ranges_to_stream |-> ranges_to_stream]
    ELSE IF Len(ranges_to_stream) + 1 < per_stream_plan
         THEN FillStreamPlan(Tail(range_vec), Append(ranges_to_stream, Head(range_vec)),
                             per_stream_plan)
         ELSE [range_vec |-> Tail(range_vec),
               ranges_to_stream |-> Append(ranges_to_stream, Head(range_vec))]

\* A catch block that forgets the ranges of the failed stream plan.
RestoreRangesDropped(range_vec, ranges_to_stream) == range_vec

\* A catch block that puts the ranges of the failed stream plan in front.
RestoreRangesInFront(range_vec, ranges_to_stream) == ranges_to_stream \o range_vec

\* A catch block that puts back only the first range of the failed stream plan.
RestoreRangesFirstOnly(range_vec, ranges_to_stream) ==
    IF ranges_to_stream = <<>> THEN range_vec ELSE Append(range_vec, Head(ranges_to_stream))

\* Lines 306-308: range_vec.push_back(range) for every range of the failed plan.
RestoreRanges(range_vec, ranges_to_stream) == range_vec \o ranges_to_stream

\* A loop that keeps the ranges of a completed stream plan in ranges_to_stream.
ClearRangesSkipped(ranges_to_stream) == ranges_to_stream

\* Line 290: ranges_to_stream.clear() after the plan's execution.
ClearRanges(ranges_to_stream) == <<>>

\* A do_streaming() that dispatches whatever the state of the abort source.
AbortCheckNeverThrows(aborted) == FALSE

\* Line 279: _abort_source.check() throws when the abort was requested.
AbortCheckThrows(aborted) == aborted

\* A stream plan whose execution may complete although it was aborted.
ExecuteCanSucceedAborted(sp_aborted) == TRUE

\* stream_plan::abort(), called by the listener of line 278, makes the
\* plan's execute() fail.
ExecuteCanSucceed(sp_aborted) == ~sp_aborted

\* A limiter whose unit is not given back when a task ends.
ReleaseUnitLeaked(units) == units

\* with_semaphore, line 266, returns the unit when the task's future
\* resolves, with a value or with an exception.
ReleaseUnit(units) == units + 1

\* A finally block that logs success whatever is left.
FinallyReportAlwaysSucceeded(nr_ranges_remaining) == "succeeded"

\* Lines 320-325: the finally block logs "failed" when ranges remain.
FinallyReport(nr_ranges_remaining) ==
    IF nr_ranges_remaining # 0 THEN "failed" ELSE "succeeded"

RECURSIVE Flatten(_)
Flatten(plans) == IF plans = <<>> THEN <<>> ELSE Head(plans) \o Flatten(Tail(plans))

\* A limiter that admits a task whatever the number of units left.
PermitAlways(units) == TRUE

\* with_semaphore(_limiter, 1, ...) of line 266 proceeds when a unit is free.
PermitAvailable(units) == units >= 1

IdleTask == [pc |-> "idle", ranges_to_stream |-> <<>>, nr_ranges_total |-> 0,
             nr_ranges_per_stream_plan |-> 0, nr_ranges_streamed |-> 0, sp_index |-> 0,
             sp_aborted |-> FALSE, completed |-> <<>>, failed_plan |-> <<>>,
             left_at_failure |-> <<>>]

\* The task of one source: pc, the locals of lines 271-275, whether its
\* running stream plan was aborted, and a record of what it did: the stream
\* plans completed, the plan that failed and the ranges range_vec held then.
TasksFor(stream, pc0) ==
    [k \in DOMAIN stream |->
        [source \in DOMAIN stream[k].ranges_per_endpoint |-> [IdleTask EXCEPT !.pc = pc0[k]]]]

range_vec(k, source) == to_stream[k].ranges_per_endpoint[source]

Finished(task) == task.pc \in {"done", "failed"}

\* The thread of lines 267-315 runs from the loop head to its next suspension:
\* it fills a stream plan and enters do_streaming(), where the abort check of
\* line 279 may throw, or it finds nothing left and returns.
RunToSuspension(task, vec, aborted) ==
    LET filled == FillStreamPlan(vec, task.ranges_to_stream, task.nr_ranges_per_stream_plan)
    IN  IF filled.ranges_to_stream = <<>>
        THEN [task |-> [task EXCEPT !.pc = "done"], range_vec |-> filled.range_vec,
              holds_permit |-> FALSE]
        ELSE IF AbortCheckThrows(aborted)
        THEN [task |-> [task EXCEPT !.pc = "failed", !.sp_index = @ + 1,
                                    !.ranges_to_stream = filled.ranges_to_stream,
                                    !.failed_plan = filled.ranges_to_stream,
                                    !.left_at_failure = filled.range_vec],
              range_vec |-> RestoreRanges(filled.range_vec, filled.ranges_to_stream),
              holds_permit |-> FALSE]
        ELSE [task |-> [task EXCEPT !.pc = "executing", !.sp_index = @ + 1,
                                    !.sp_aborted = FALSE,
                                    !.ranges_to_stream = filled.ranges_to_stream,
                                    !.nr_ranges_streamed = @ + Len(filled.ranges_to_stream)],
              range_vec |-> filled.range_vec,
              holds_permit |-> TRUE]

SetRangeVec(stream, k, source, vec) ==
    [stream EXCEPT ![k].ranges_per_endpoint[source] = vec]

\* The ranges each source streamed in completed stream plans, over the
\* stream_async calls made so far.
StreamedSoFar ==
    [k \in DOMAIN to_stream |->
        [source \in DOMAIN to_stream[k].ranges_per_endpoint |->
            IF stream_calls = 0 THEN <<>>
            ELSE streamed_earlier[k][source] \o Flatten(tasks[k][source].completed)]]

\* stream_async is called, for the first time or again after a call that
\* failed: do_for_each reaches the first entry of _to_stream and
\* parallel_for_each creates one task per source, each waiting for the limiter.
StartStreamAsync ==
    /\ \/ stream_pc = "idle"
       \/ stream_pc = "failed" /\ stream_calls < MaxStreamCalls
    /\ to_stream_at_start' = to_stream
    /\ stream_calls' = stream_calls + 1
    /\ streamed_earlier' = StreamedSoFar
    /\ IF to_stream = <<>>
       THEN /\ stream_pc' = "succeeded"
            /\ finally_report' = FinallyReport(nr_ranges_to_stream)
            /\ UNCHANGED <<ks_index, tasks>>
       ELSE /\ stream_pc' = "running"
            /\ finally_report' = "none"
            /\ ks_index' = 1
            /\ tasks' = TasksFor(to_stream, [k \in DOMAIN to_stream |->
                                                IF k = 1 THEN "waiting" ELSE "idle"])
    /\ UNCHANGED <<to_stream, limiter, abort_requested, nr_tx_added, nr_rx_added,
                   call_budget, last_add, planVars, ringVars, strictVars, configVars,
                   consumeVars, codecVars, queryVars>>

\* A waiting task obtains a unit of the limiter and its thread runs up to the
\* execution of its first stream plan.
TaskStart(k, source) ==
    /\ stream_pc = "running"
    /\ k = ks_index
    /\ tasks[k][source].pc = "waiting"
    /\ PermitAvailable(limiter)
    /\ LET total == Len(range_vec(k, source))
           begun == [tasks[k][source] EXCEPT
                        !.nr_ranges_total = total,
                        !.nr_ranges_per_stream_plan = nr_ranges_per_stream_plan(total)]
           run == RunToSuspension(begun, range_vec(k, source), abort_requested)
       IN  /\ tasks' = [tasks EXCEPT ![k][source] = run.task]
           /\ to_stream' = SetRangeVec(to_stream, k, source, run.range_vec)
           /\ limiter' = IF run.holds_permit THEN limiter - 1 ELSE ReleaseUnit(limiter - 1)
    /\ UNCHANGED <<stream_pc, ks_index, abort_requested, to_stream_at_start, finally_report,
                   stream_calls, streamed_earlier, nr_tx_added, nr_rx_added, call_budget,
                   last_add, planVars, ringVars, strictVars, configVars, consumeVars,
                   codecVars, queryVars>>

\* sp.execute() of line 289 completes: the plan's ranges are cleared and the
\* thread runs on to its next stream plan or to its end.
ExecuteSucceeds(k, source) ==
    /\ stream_pc = "running"
    /\ tasks[k][source].pc = "executing"
    /\ ExecuteCanSucceed(tasks[k][source].sp_aborted)
    /\ LET task == tasks[k][source]
           cleared == [task EXCEPT !.completed = Append(@, task.ranges_to_stream),
                                   !.ranges_to_stream = ClearRanges(@)]
           run == RunToSuspension(cleared, range_vec(k, source), abort_requested)
       IN  /\ tasks' = [tasks EXCEPT ![k][source] = run.task]
           /\ to_stream' = SetRangeVec(to_stream, k, source, run.range_vec)
           /\ limiter' = IF run.holds_permit THEN limiter ELSE ReleaseUnit(limiter)
    /\ UNCHANGED <<stream_pc, ks_index, abort_requested, to_stream_at_start, finally_report,
                   stream_calls, streamed_earlier, nr_tx_added, nr_rx_added, call_budget,
                   last_add, planVars, ringVars, strictVars, configVars, consumeVars,
                   codecVars, queryVars>>

\* sp.execute() of line 289 fails: the catch block of lines 305-312 restores
\* the plan's ranges and rethrows; the limiter unit is returned.
ExecuteFails(k, source) ==
    /\ stream_pc = "running"
    /\ tasks[k][source].pc = "executing"
    /\ LET task == tasks[k][source]
       IN  /\ tasks' = [tasks EXCEPT ![k][source] =
                            [task EXCEPT !.pc = "failed",
                                         !.failed_plan = task.ranges_to_stream,
                                         !.left_at_failure = range_vec(k, source)]]
           /\ to_stream' = SetRangeVec(to_stream, k, source,
                               RestoreRanges(range_vec(k, source), task.ranges_to_stream))
    /\ limiter' = ReleaseUnit(limiter)
    /\ UNCHANGED <<stream_pc, ks_index, abort_requested, to_stream_at_start, finally_report,
                   stream_calls, streamed_earlier, nr_tx_added, nr_rx_added, call_budget,
                   last_add, planVars, ringVars, strictVars, configVars, consumeVars,
                   codecVars, queryVars>>

\* A parallel_for_each that gives up as soon as one task has failed.
EntryFinishedOnFirstFailure(k) ==
    \/ \A source \in DOMAIN tasks[k] : Finished(tasks[k][source])
    \/ \E source \in DOMAIN tasks[k] : tasks[k][source].pc = "failed"

\* parallel_for_each of line 263 resolves when every task has finished.
EntryFinished(k) == \A source \in DOMAIN tasks[k] : Finished(tasks[k][source])

\* A do_for_each that goes on to the next entry whatever the outcome of this one.
EntryFailedIgnored(k) == FALSE

\* do_for_each of line 257 stops at the first entry whose future failed.
EntryFailed(k) == \E source \in DOMAIN tasks[k] : tasks[k][source].pc = "failed"

\* The tasks of the current entry have all finished: do_for_each stops at a
\* failed entry, moves on to the next entry, or ends.
KeyspaceDone ==
    /\ stream_pc = "running"
    /\ EntryFinished(ks_index)
    /\ IF EntryFailed(ks_index)
       THEN /\ stream_pc' = "failed"
            /\ finally_report' = FinallyReport(nr_ranges_to_stream)
            /\ UNCHANGED <<ks_index, tasks>>
       ELSE IF ks_index = Len(to_stream)
       THEN /\ stream_pc' = "succeeded"
            /\ finally_report' = FinallyReport(nr_ranges_to_stream)
            /\ UNCHANGED <<ks_index, tasks>>
       ELSE /\ ks_index' = ks_index + 1
            /\ tasks' = [tasks EXCEPT ![ks_index + 1] =
                            [source \in DOMAIN tasks[ks_index + 1] |->
                                [IdleTask EXCEPT !.pc = "waiting"]]]
            /\ UNCHANGED <<stream_pc, finally_report>>
    /\ UNCHANGED <<to_stream, limiter, abort_requested, to_stream_at_start, stream_calls,
                   streamed_earlier, nr_tx_added, nr_rx_added, call_budget, last_add,
                   planVars, ringVars, strictVars, configVars, consumeVars, codecVars, queryVars>>

\* _abort_source is triggered: the listeners of line 278 abort the stream
\* plans in execution.
RequestAbort ==
    /\ ~abort_requested
    /\ abort_requested' = TRUE
    /\ tasks' = [k \in DOMAIN tasks |-> [source \in DOMAIN tasks[k] |->
                    IF tasks[k][source].pc = "executing"
                    THEN [tasks[k][source] EXCEPT !.sp_aborted = TRUE]
                    ELSE tasks[k][source]]]
    /\ UNCHANGED <<stream_pc, ks_index, to_stream, limiter, to_stream_at_start,
                   finally_report, stream_calls, streamed_earlier, nr_tx_added, nr_rx_added,
                   call_budget, last_add, planVars, ringVars, strictVars, configVars,
                   consumeVars, codecVars, queryVars>>

\* The entries of a work list: each source holds up to MaxSmallRanges ranges,
\* or B holds BigRangeCount of them.
SmallEntries(sources) ==
    UNION {[S -> {RangeList(n) : n \in 0..MaxSmallRanges}] : S \in SUBSET sources}

BigEntries ==
    {[source \in S |-> IF source = "B" THEN RangeList(BigRangeCount) ELSE RangeList(1)] :
        S \in {{"B"}, {"B", "C"}}}

KeyspaceName(k) == IF k = 1 THEN "ks1" ELSE "ks2"

WorkList(entries) ==
    [k \in DOMAIN entries |->
        [keyspace |-> KeyspaceName(k), ranges_per_endpoint |-> entries[k]]]

\* The work lists: one entry with up to three sources, or up to MaxKeyspaces
\* entries with up to two sources each.
WorkLists ==
    {WorkList(<<entry>>) : entry \in SmallEntries(StreamSources) \cup BigEntries}
    \cup {WorkList(entries) :
            entries \in SeqUpTo(SmallEntries({"B", "C"}), MaxKeyspaces)}

StreamInit ==
    /\ to_stream \in WorkLists
    /\ nr_rx_added = Len(to_stream)
    /\ nr_tx_added = 0
    /\ call_budget = 0
    /\ last_add = NoCall
    /\ StreamIdle
    /\ ConsumeIdle
    /\ CodecIdle
    /\ QueryIdle
    /\ PlanIdle
    /\ replication_factor = 1
    /\ RingIdle
    /\ StrictIdle
    /\ ConfigIdle

StreamNext ==
    \/ StartStreamAsync
    \/ \E k \in DOMAIN tasks : \E source \in DOMAIN tasks[k] :
          \/ TaskStart(k, source)
          \/ ExecuteSucceeds(k, source)
          \/ ExecuteFails(k, source)
    \/ KeyspaceDone
    \/ RequestAbort

SpecStream == StreamInit /\ [][StreamNext]_vars

\* The execution of the stream plan of one task completes, with success or failure.
ExecutionCompletes(k, source) ==
    /\ k \in DOMAIN tasks
    /\ source \in DOMAIN tasks[k]
    /\ ExecuteSucceeds(k, source) \/ ExecuteFails(k, source)

\* The limiter admits one of the tasks waiting for a unit.
LimiterAdmits == \E k \in DOMAIN tasks : \E source \in DOMAIN tasks[k] : TaskStart(k, source)

\* stream_async on a reactor that runs every continuation that is ready: a free
\* unit of the limiter is handed to a waiter, a resolved parallel_for_each is
\* continued by do_for_each, and every stream plan execution completes.
SpecStreamFair ==
    /\ SpecStream
    /\ WF_vars(LimiterAdmits)
    /\ WF_vars(KeyspaceDone)
    /\ \A k \in 1..MaxKeyspaces : \A source \in StreamSources :
           WF_vars(ExecutionCompletes(k, source))

(***************************************************************************)
(* Properties of stream_async                                              *)
(***************************************************************************)

TaskIds == UNION {{k} \X DOMAIN tasks[k] : k \in DOMAIN tasks}

TaskOf(id) == tasks[id[1]][id[2]]

\* The range list of a source as it was when stream_async was called.
OriginalVec(id) == to_stream_at_start[id[1]].ranges_per_endpoint[id[2]]

CurrentVec(id) == range_vec(id[1], id[2])

\* The number of ranges a task streamed in stream plans that completed.
NrCompleted(id) == Len(Flatten(TaskOf(id).completed))

Executing == {id \in TaskIds : TaskOf(id).pc = "executing"}

\* C7: the tasks executing stream plans are never more than the units of the
\* limiter, and every such task holds one unit: the units left are the
\* units of the limiter minus the number of those tasks.
C7_LimiterBoundsRunningTasks ==
    /\ Cardinality(Executing) <= LimiterPermits
    /\ limiter = LimiterPermits - Cardinality(Executing)

\* All units are taken by tasks of which one is past its first stream plan,
\* and a further task of the keyspace waits.
C7_Witness ==
    /\ limiter = 0
    /\ Cardinality(Executing) = LimiterPermits
    /\ \E id \in Executing : TaskOf(id).completed # <<>>
    /\ \E id \in TaskIds : TaskOf(id).pc = "waiting"

\* C8 as stated: after a stream plan failed, the source's range list is the
\* ranges of the failed plan followed by the ranges not yet dispatched.
C8_RestoredInFront ==
    \A id \in TaskIds :
        TaskOf(id).pc = "failed" =>
            CurrentVec(id) = TaskOf(id).failed_plan \o TaskOf(id).left_at_failure

\* C8 as amended: after a stream plan failed, the source's range list is the
\* ranges not yet dispatched followed by the ranges of the failed plan, which
\* are the next ranges of the original list after those streamed; none is dropped.
C8_RestoredAtBack ==
    \A id \in TaskIds :
        TaskOf(id).pc = "failed" =>
            LET c == NrCompleted(id)
                n == Len(TaskOf(id).failed_plan)
                T == Len(OriginalVec(id))
            IN  /\ n >= 1
                /\ TaskOf(id).failed_plan = SubSeq(OriginalVec(id), c + 1, c + n)
                /\ TaskOf(id).left_at_failure = SubSeq(OriginalVec(id), c + n + 1, T)
                /\ CurrentVec(id) = TaskOf(id).left_at_failure \o TaskOf(id).failed_plan

\* A stream plan failed after another had completed and while ranges were left.
C8_Witness ==
    \E id \in TaskIds :
        /\ TaskOf(id).pc = "failed"
        /\ TaskOf(id).completed # <<>>
        /\ TaskOf(id).left_at_failure # <<>>
        /\ ~abort_requested

NotStreamed(id) == Len(OriginalVec(id)) - NrCompleted(id)

RECURSIVE SumNotStreamed(_)
SumNotStreamed(ids) ==
    IF ids = {} THEN 0
    ELSE LET id == CHOOSE x \in ids : TRUE IN NotStreamed(id) + SumNotStreamed(ids \ {id})

StreamEnded == stream_pc \in {"succeeded", "failed"}

\* C9: after a failure that follows N completed stream plans, the source's
\* range list holds exactly the original ranges behind those of the N plans,
\* the failed plan's ranges among them, and when stream_async has ended
\* nr_ranges_to_stream() counts, per source, the ranges not streamed in
\* completed plans.
C9_RemainingAfterFailure ==
    /\ \A id \in TaskIds :
           TaskOf(id).pc = "failed" =>
               LET c == NrCompleted(id)
                   T == Len(OriginalVec(id))
               IN  /\ Flatten(TaskOf(id).completed) = SubSeq(OriginalVec(id), 1, c)
                   /\ SeqRange(CurrentVec(id)) = SeqRange(SubSeq(OriginalVec(id), c + 1, T))
                   /\ Len(CurrentVec(id)) = T - c
                   /\ SeqRange(TaskOf(id).failed_plan) \subseteq SeqRange(CurrentVec(id))
    /\ StreamEnded => nr_ranges_to_stream = SumNotStreamed(TaskIds)

\* stream_async ended after a source failed in its third or a later stream
\* plan with further plans undispatched.
C9_Witness ==
    /\ stream_pc = "failed"
    /\ \E id \in TaskIds :
         /\ TaskOf(id).pc = "failed"
         /\ Len(TaskOf(id).completed) >= 2
         /\ Len(TaskOf(id).left_at_failure) >= 2
         /\ nr_ranges_to_stream >= Len(CurrentVec(id))

C10_Step ==
    \A id \in TaskIds :
        (TaskOf(id).pc # "failed" /\ tasks'[id[1]][id[2]].pc = "failed") =>
            \A other \in TaskIds \ {id} :
                /\ tasks'[other[1]][other[2]] = TaskOf(other)
                /\ to_stream'[other[1]].ranges_per_endpoint[other[2]] = CurrentVec(other)

\* C10: stream_async fails exactly when some per-source task failed; it ends
\* only when every task of the keyspaces it dispatched has finished; a task
\* that finished without failure has streamed its whole original list and
\* left its range list empty; and the failure of a task changes neither the
\* state nor the range list of any other task.
C10_FailureIsolatedPerSource ==
    /\ [](StreamEnded =>
            /\ (stream_pc = "failed") <=> (\E id \in TaskIds : TaskOf(id).pc = "failed")
            /\ \A id \in TaskIds :
                   /\ id[1] <= ks_index => Finished(TaskOf(id))
                   /\ TaskOf(id).pc = "done" =>
                          /\ CurrentVec(id) = <<>>
                          /\ Flatten(TaskOf(id).completed) = OriginalVec(id))
    /\ [][C10_Step]_vars

\* stream_async failed because of one source while another source of the same
\* keyspace streamed its two ranges, with no abort requested.
C10_Witness ==
    /\ stream_pc = "failed"
    /\ ~abort_requested
    /\ \E id, other \in TaskIds :
         /\ id[1] = other[1]
         /\ TaskOf(id).pc = "failed"
         /\ TaskOf(other).pc = "done"
         /\ Len(OriginalVec(other)) >= 2
         /\ CurrentVec(other) = <<>>

(***************************************************************************)
(* Cancellation, the limiter's units and the shape of the stream plans     *)
(***************************************************************************)

NextTaskOf(id) == tasks'[id[1]][id[2]]

\* The task failed in the abort check of do_streaming(): the plan it had
\* filled was never executed.
FailedInAbortCheck(id) ==
    /\ TaskOf(id).pc = "failed"
    /\ TaskOf(id).nr_ranges_streamed = NrCompleted(id)

\* The task failed in the execution of a stream plan.
FailedInExecute(id) ==
    /\ TaskOf(id).pc = "failed"
    /\ TaskOf(id).nr_ranges_streamed = NrCompleted(id) + Len(TaskOf(id).failed_plan)

C11_Step ==
    /\ abort_requested =>
           /\ \A id \in TaskIds' :
                  NextTaskOf(id).pc = "executing" =>
                      /\ id \in TaskIds
                      /\ NextTaskOf(id) = TaskOf(id)
           /\ stream_calls' = stream_calls =>
                  \A id \in TaskIds : NextTaskOf(id).completed = TaskOf(id).completed
    /\ (~abort_requested /\ abort_requested') =>
           /\ to_stream' = to_stream
           /\ \A id \in TaskIds : NextTaskOf(id).completed = TaskOf(id).completed

\* C11: once the abort source is triggered no task starts the execution of a
\* stream plan and no stream plan completes any more; every stream plan in
\* execution is aborted; a task that failed has the ranges of its current
\* chunk back in the source's range list, while the ranges of the chunks it
\* completed stay out of it; and triggering the abort changes no range list.
C11_AbortStopsDispatch ==
    /\ [](abort_requested =>
            \A id \in TaskIds :
                /\ TaskOf(id).pc = "executing" => TaskOf(id).sp_aborted
                /\ TaskOf(id).pc = "failed" =>
                       /\ SeqRange(TaskOf(id).failed_plan) \subseteq SeqRange(CurrentVec(id))
                       /\ SeqRange(Flatten(TaskOf(id).completed))
                              \cap SeqRange(CurrentVec(id)) = {}
                       /\ Len(CurrentVec(id)) = Len(OriginalVec(id)) - NrCompleted(id))
    /\ [][C11_Step]_vars

\* After an abort, one task failed in a stream plan that was aborted in
\* flight after it had completed another, and a second task failed in the
\* abort check before its first dispatch.
C11_Witness ==
    /\ abort_requested
    /\ \E id, other \in TaskIds :
         /\ FailedInExecute(id)
         /\ TaskOf(id).sp_aborted
         /\ TaskOf(id).completed # <<>>
         /\ TaskOf(id).left_at_failure # <<>>
         /\ FailedInAbortCheck(other)
         /\ TaskOf(other).completed = <<>>
         /\ TaskOf(other).failed_plan # <<>>
         /\ SeqRange(TaskOf(other).failed_plan) \subseteq SeqRange(CurrentVec(other))

\* C12: whenever no stream_async call is in progress, before the first call
\* and after a call has ended with or without an error, every unit of the
\* limiter is available and no task is executing a stream plan.
C12_PermitsRestored ==
    stream_pc # "running" =>
        /\ limiter = LimiterPermits
        /\ \A id \in TaskIds : TaskOf(id).pc # "executing"

\* stream_async has ended after one task streamed all its ranges, one failed
\* in the execution of a stream plan and one failed in the abort check.
C12_Witness ==
    /\ StreamEnded
    /\ limiter = LimiterPermits
    /\ \E id \in TaskIds : TaskOf(id).pc = "done" /\ TaskOf(id).completed # <<>>
    /\ \E id \in TaskIds : FailedInExecute(id) /\ ~TaskOf(id).sp_aborted
    /\ \E id \in TaskIds : FailedInAbortCheck(id) /\ TaskOf(id).failed_plan # <<>>

Max(a, b) == IF a >= b THEN a ELSE b

\* The stream plans a task has executed or is executing, in order.
ExecutedPlans(id) ==
    TaskOf(id).completed \o
        (IF TaskOf(id).pc = "executing" THEN <<TaskOf(id).ranges_to_stream>>
         ELSE IF FailedInExecute(id) THEN <<TaskOf(id).failed_plan>>
         ELSE <<>>)

\* The ranges not yet dispatched when the task's last stream plan was dispatched.
LeftBehind(id) ==
    IF TaskOf(id).pc = "failed" THEN TaskOf(id).left_at_failure ELSE CurrentVec(id)

Started(id) == TaskOf(id).pc \notin {"idle", "waiting"}

\* C13: for a source whose range list held T ranges when its task started,
\* every executed stream plan carries at least 1 and at most max(1, T / 10)
\* ranges, and a plan that carries fewer than max(1, T / 10) is the last one
\* and leaves no range undispatched.
C13_ChunkSizes ==
    \A id \in TaskIds :
        Started(id) =>
            LET T == Len(OriginalVec(id))
                P == Max(1, T \div 10)
                plans == ExecutedPlans(id)
            IN  /\ TaskOf(id).nr_ranges_total = T
                /\ \A i \in DOMAIN plans :
                       /\ Len(plans[i]) >= 1
                       /\ Len(plans[i]) <= P
                       /\ Len(plans[i]) < P => i = Len(plans) /\ LeftBehind(id) = <<>>

\* A source with 21 ranges streamed them in ten plans of two ranges and a
\* last plan of one, next to a source whose single range went into a plan of
\* one range although 1 / 10 is zero.
C13_Witness ==
    \E id, other \in TaskIds :
        /\ TaskOf(id).pc = "done"
        /\ Len(OriginalVec(id)) = 21
        /\ Len(TaskOf(id).completed) = 11
        /\ Len(TaskOf(id).completed[1]) = 2
        /\ Len(TaskOf(id).completed[11]) = 1
        /\ TaskOf(other).pc = "done"
        /\ TaskOf(other).nr_ranges_per_stream_plan = 0
        /\ TaskOf(other).completed = <<OriginalVec(other)>>
        /\ Len(OriginalVec(other)) = 1

C14_Step ==
    \A id \in TaskIds :
        (id \in TaskIds' /\ NextTaskOf(id).sp_index > TaskOf(id).sp_index) =>
            /\ NextTaskOf(id).sp_index = TaskOf(id).sp_index + 1
            /\ Len(NextTaskOf(id).completed) = TaskOf(id).sp_index

\* C14: the ranges a source's task has dispatched, chunk after chunk, are a
\* prefix of the source's range list in list order; a task has at most one
\* stream plan that has not completed, its latest; and a task creates its
\* next stream plan only when all its earlier plans have completed.
C14_FifoWithinSource ==
    /\ [](\A id \in TaskIds :
            Started(id) =>
                LET dispatched == Flatten(ExecutedPlans(id))
                IN  /\ dispatched = SubSeq(OriginalVec(id), 1, Len(dispatched))
                    /\ Len(ExecutedPlans(id)) - Len(TaskOf(id).completed) \in {0, 1})
    /\ [][C14_Step]_vars

\* Two sources of one keyspace: one has completed two chunks while the other,
\* with as many ranges, still executes its first.
C14_Witness ==
    \E id, other \in TaskIds :
        /\ id[1] = other[1]
        /\ Len(TaskOf(id).completed) >= 2
        /\ TaskOf(other).pc = "executing"
        /\ TaskOf(other).completed = <<>>
        /\ Len(OriginalVec(other)) = Len(OriginalVec(id))
        /\ stream_calls = 1

(***************************************************************************)
(* Progress accounting, the outcome of stream_async and its retry          *)
(***************************************************************************)

\* The ranges enqueued: one per position of a range list of _to_stream.
EnqueuedRanges ==
    UNION {{<<k, source, i>> : i \in DOMAIN to_stream[k].ranges_per_endpoint[source]} :
              <<k, source>> \in UNION {{k} \X DOMAIN to_stream[k].ranges_per_endpoint :
                                          k \in DOMAIN to_stream}}

\* The ranges of the stream plan a task is executing.
InFlight(id) ==
    IF TaskOf(id).pc = "executing" THEN Len(TaskOf(id).ranges_to_stream) ELSE 0

RECURSIVE SumNotDispatched(_)
SumNotDispatched(ids) ==
    IF ids = {} THEN 0
    ELSE LET id == CHOOSE x \in ids : TRUE
         IN  NotStreamed(id) - InFlight(id) + SumNotDispatched(ids \ {id})

\* C15: before the first stream_async nr_ranges_to_stream() is the number of
\* ranges enqueued; from then on it is the sum over the sources of the ranges
\* the call found in the source's list, less those of its completed stream
\* plans and less those of the plan in execution.
C15_LiveSumOfUndispatched ==
    /\ stream_calls = 0 => nr_ranges_to_stream = Cardinality(EnqueuedRanges)
    /\ stream_calls > 0 /\ to_stream # <<>> =>
           nr_ranges_to_stream = SumNotDispatched(TaskIds)
    /\ to_stream = <<>> => nr_ranges_to_stream = 0

\* Two keyspaces, the second not yet reached; in the first a source has a
\* chunk in flight after a completed one and another source has failed.
C15_Witness ==
    /\ stream_pc = "running"
    /\ Len(to_stream) = 2
    /\ ks_index = 1
    /\ \E source \in DOMAIN to_stream[2].ranges_per_endpoint :
         Len(to_stream[2].ranges_per_endpoint[source]) >= 1
    /\ \E id, other \in TaskIds :
         /\ InFlight(id) >= 1
         /\ TaskOf(id).completed # <<>>
         /\ TaskOf(other).pc = "failed"

\* C16: when stream_async has ended, its finally block logged a failure
\* exactly when nr_ranges_to_stream() is not zero and a success exactly when
\* it is zero, and the call itself ended with an error exactly when
\* nr_ranges_to_stream() is not zero.
C16_FailedIffRangesRemain ==
    /\ StreamEnded =>
           /\ (finally_report = "failed") <=> (nr_ranges_to_stream # 0)
           /\ (finally_report = "succeeded") <=> (nr_ranges_to_stream = 0)
           /\ (stream_pc = "failed") <=> (nr_ranges_to_stream # 0)
           /\ (stream_pc = "succeeded") <=> (nr_ranges_to_stream = 0)
    /\ ~StreamEnded => finally_report = "none"

\* stream_async ended with an error and a logged failure in its second
\* keyspace, after the sources of the first had streamed all their ranges.
C16_Witness ==
    /\ stream_pc = "failed"
    /\ finally_report = "failed"
    /\ ks_index = 2
    /\ nr_ranges_to_stream >= 1
    /\ \E id \in TaskIds : id[1] = 1 /\ TaskOf(id).completed # <<>>

NoDuplicates(seq) == \A i, j \in DOMAIN seq : seq[i] = seq[j] => i = j

\* C17: in a stream_async call made after a failed one, every source's task
\* starts from the ranges its list still holds, none of which was streamed
\* by an earlier call; what the task dispatches is a prefix of that list,
\* each range once, so that over all calls no range is streamed twice; and
\* when the call ends without an error every task has streamed exactly the
\* ranges its list held and nr_ranges_to_stream() is 0.
C17_RetryStreamsOnlyRemaining ==
    stream_calls >= 2 =>
        /\ \A id \in TaskIds :
               LET earlier == streamed_earlier[id[1]][id[2]]
                   dispatched == Flatten(ExecutedPlans(id))
               IN  /\ SeqRange(OriginalVec(id)) \cap SeqRange(earlier) = {}
                   /\ NoDuplicates(OriginalVec(id))
                   /\ dispatched = SubSeq(OriginalVec(id), 1, Len(dispatched))
                   /\ NoDuplicates(earlier \o dispatched)
                   /\ stream_pc = "succeeded" =>
                          Flatten(TaskOf(id).completed) = OriginalVec(id)
        /\ stream_pc = "succeeded" => nr_ranges_to_stream = 0

\* The second call ended without an error; a source streamed in it the four
\* or more ranges that the first call, which had completed a chunk for the
\* source before it failed, left in its list.
C17_Witness ==
    /\ stream_calls = 2
    /\ stream_pc = "succeeded"
    /\ nr_ranges_to_stream = 0
    /\ \E id \in TaskIds :
         /\ streamed_earlier[id[1]][id[2]] # <<>>
         /\ Len(OriginalVec(id)) >= 4
         /\ Len(TaskOf(id).completed) = Len(OriginalVec(id))
         /\ OriginalVec(id)[1] # <<0, Len(streamed_earlier[id[1]][id[2]]) + 1>>

(***************************************************************************)
(* Properties of get_all_ranges_with_sources_for                           *)
(***************************************************************************)

\* The position of an endpoint in the snitch's ranking.
Rank(endpoint) == CHOOSE i \in DOMAIN proximity : proximity[i] = endpoint

\* `block` lists the endpoints of `addresses`, each once, nearest first.
SortedByProximity(block, addresses) ==
    /\ SeqRange(block) = SeqRange(addresses)
    /\ Len(block) = Len(addresses)
    /\ \A i, j \in DOMAIN block : i < j => Rank(block[i]) < Rank(block[j])

\* `list` is made of one block per ring range of `order`, that range's
\* replicas nearest first, and of `times` such rounds, from position `at` on.
RECURSIVE MadeOfBlocks(_, _, _, _, _)
MadeOfBlocks(list, order, k, times, at) ==
    IF times = 0 THEN at = Len(list) + 1
    ELSE IF k > Len(order) THEN MadeOfBlocks(list, order, 1, times - 1, at)
    ELSE LET n == Len(range_addresses[order[k]])
         IN  /\ at + n - 1 <= Len(list)
             /\ SortedByProximity(SubSeq(list, at, at + n - 1), range_addresses[order[k]])
             /\ MadeOfBlocks(list, order, k + 1, times, at + n)

Uncovered == {j \in DOMAIN desired_ranges : ContainingRanges(desired_ranges[j]) = {}}

\* C18: normal-mode resolution fails, with "No sources found", exactly when
\* some desired range lies in no ring range; otherwise its result has an
\* entry for every desired range and for nothing else, and the entry is a
\* non-empty list made, once per listing of the desired range, of the
\* replicas of every containing ring range, nearest first.
C18_NormalSourcesOrError ==
    ns_pc = "returned" =>
        /\ ns_result.threw <=> Uncovered # {}
        /\ ns_result.threw => ns_result.error = "No sources found"
        /\ ~ns_result.threw =>
               /\ DOMAIN ns_result.range_sources = SeqRange(desired_ranges)
               /\ \A j \in DOMAIN desired_ranges :
                      LET d == desired_ranges[j]
                          list == ns_result.range_sources[d]
                      IN  /\ list # <<>>
                          /\ SeqRange(list) = UNION {SeqRange(range_addresses[src]) :
                                                        src \in ContainingRanges(d)}
                          /\ \E order \in Orderings(ContainingRanges(d)) :
                                 MadeOfBlocks(list, order, 1,
                                              TimesDesired(desired_ranges, d), 1)

\* A call returned sources for two desired ranges, one of them in two ring
\* ranges whose replica lists were not in proximity order.
C18_Witness ==
    /\ ns_pc = "returned"
    /\ ~ns_result.threw
    /\ desired_ranges = <<<<0, 1>>, <<3, 0>>>>
    /\ Cardinality(ContainingRanges(<<0, 1>>)) = 2
    /\ Len(ns_result.range_sources[<<0, 1>>]) = 4
    /\ range_addresses[<<0, 2>>] = <<"C", "B">>
    /\ proximity = <<"A", "B", "C">>
    /\ SubSeq(ns_result.range_sources[<<0, 1>>], 1, 2) = <<"B", "C">>

(***************************************************************************)
(* The resolution mode of add_ranges                                       *)
(***************************************************************************)

\* The four conditions of strict-source resolution.
StrictEligible ==
    /\ consistent_rangemovement
    /\ ~tokens_empty
    /\ ~everywhere_topology
    /\ nr_nodes_in_ring >= replication_factor

\* The call's outcome is that of the resolution r, up to the errors of the
\* fetch-map planning that follows a successful resolution.
OutcomeOf(call, r) ==
    /\ call.range_sources = r.range_sources
    /\ r.threw => call.threw /\ call.error = r.error

ResolvedStrictly(call) ==
    \E order \in Orderings(DOMAIN range_addresses) :
        OutcomeOf(call, get_all_ranges_with_strict_sources_for(
                            call.ranges, range_addresses, pending_range_addresses,
                            replication_factor, gossiper_enabled, alive, order))

ResolvedNormally(call) ==
    \E order \in Orderings(DOMAIN range_addresses) :
        OutcomeOf(call, get_all_ranges_with_sources_for(
                            call.ranges, range_addresses, proximity, order))

C19_Step ==
    (AddCallStep /\ last_add'.op = "add_ranges") =>
        /\ last_add'.strict => StrictEligible /\ ResolvedStrictly(last_add')
        /\ ~StrictEligible => ~last_add'.strict /\ ResolvedNormally(last_add')
        /\ (StrictEligible /\ ~last_add'.is_replacing) => last_add'.strict
        /\ ~last_add'.strict => ResolvedNormally(last_add')

\* C19: an add_ranges call resolves its sources strictly only if
\* consistent_rangemovement is on, the node has tokens, the strategy is not
\* everywhere-topology and the ring has at least as many nodes as the
\* replication factor; if one of these fails the call's outcome is that of
\* normal-mode resolution; and a call that is not a replace resolves
\* strictly whenever all four hold, also with as many nodes as replicas.
C19_StrictOnlyWhenEligible == [][C19_Step]_vars

\* A strict call in a ring of as many nodes as replicas resolved the range
\* to the one replica that leaves, where normal mode lists both replicas.
C19_Witness ==
    /\ last_add.op = "add_ranges"
    /\ last_add.strict
    /\ ~last_add.threw
    /\ nr_nodes_in_ring = 2 /\ replication_factor = 2
    /\ last_add.ranges = <<<<0, 1>>>>
    /\ Len(last_add.range_sources[<<0, 1>>]) = 1
    /\ Len(range_addresses[<<0, 2>>]) = 2
    /\ ~ResolvedNormally(last_add)

(***************************************************************************)
(* Conservation of the ranges of a source                                  *)
(***************************************************************************)

\* How often a range occurs in a list of ranges.
Count(seq, x) == Cardinality({i \in DOMAIN seq : seq[i] = x})

SameMultiset(a, b) ==
    \A x \in SeqRange(a) \cup SeqRange(b) : Count(a, x) = Count(b, x)

\* The ranges of the stream plan a task is executing.
InFlightRanges(id) ==
    IF TaskOf(id).pc = "executing" THEN TaskOf(id).ranges_to_stream ELSE <<>>

\* C30: at every point of stream_async and for every source, the ranges of
\* the completed stream plans, the ranges of the plan in execution and the
\* ranges left in the source's list form exactly the multiset of ranges the
\* list held when the call started: none is lost and none is duplicated,
\* also after a failed plan or an abort.
C30_RangesConserved ==
    \A id \in TaskIds :
        SameMultiset(Flatten(TaskOf(id).completed) \o InFlightRanges(id) \o CurrentVec(id),
                     OriginalVec(id))

\* An abort failed a source's second stream plan of two ranges while the
\* list still held ranges, and another source has a plan in execution.
C30_Witness ==
    /\ abort_requested
    /\ \E id, other \in TaskIds :
         /\ TaskOf(id).pc = "failed"
         /\ TaskOf(id).completed # <<>>
         /\ Len(TaskOf(id).failed_plan) = 2
         /\ TaskOf(id).left_at_failure # <<>>
         /\ TaskOf(other).pc = "executing"

(***************************************************************************)
(* frozen_mutation::consume and frozen_mutation_consumer_adaptor           *)
(* (frozen_mutation.hh)                                                    *)
(***************************************************************************)

\* Positions in a partition: clustering rows sit at the even positions, the
\* bounds of range tombstones at the odd ones, and AfterAllClusteredRows is
\* position_in_partition::after_all_clustered_rows().
RowPositions == {2 * i : i \in 1..MaxRows}
BoundPositions == {2 * i - 1 : i \in 1..(MaxRows + 1)}
AfterAllClusteredRows == 2 * MaxRows + 2

\* A sequence of positions in ascending order.
Ascending(q) == \A i, j \in DOMAIN q : i < j => q[i] < q[j]

\* The contents of a frozen_mutation: the cells of the static row, the range
\* tombstones <<start, end>>, disjoint and in position order, and the
\* positions of the clustering rows in order.
FrozenMutations ==
    {[static_cells |-> c, range_tombstones |-> rts, rows |-> rows] :
        c \in 0..1,
        rts \in {q \in SeqUpTo(BoundPositions \X BoundPositions, MaxRangeTombstones) :
                    /\ \A i \in DOMAIN q : q[i][1] < q[i][2]
                    /\ \A i, j \in DOMAIN q : i < j => q[i][2] < q[j][1]},
        rows \in {q \in SeqUpTo(RowPositions, MaxRows) : Ascending(q)}}

Visit(op, pos, end) == [op |-> op, pos |-> pos, end |-> end]

RECURSIVE RowVisits(_)
RowVisits(rows) ==
    IF rows = <<>> THEN <<>>
    ELSE <<Visit("accept_row", Head(rows), 0), Visit("accept_row_cell", Head(rows), 0)>>
         \o RowVisits(Tail(rows))

\* mutation_partition_view::accept: the visitor is given the partition
\* tombstone, the cells of the static row, the range tombstones and then the
\* rows, each followed by its cells.
Visits(content) ==
    <<Visit("accept_partition_tombstone", 0, 0)>>
    \o [i \in 1..content.static_cells |-> Visit("accept_static_cell", 0, 0)]
    \o [i \in DOMAIN content.range_tombstones |->
           Visit("accept_row_tombstone", content.range_tombstones[i][1],
                 content.range_tombstones[i][2])]
    \o RowVisits(content.rows)

\* What a consumer's method does: it returns stop_iteration::no or
\* stop_iteration::yes, or it throws.
Replies == {"no", "yes", "throw"}

Event(type, pos) == [type |-> type, pos |-> pos]

\* A call of a consumer method as the consumer saw it, with what it replied.
Delivered(event, reply) == [type |-> event.type, pos |-> event.pos, reply |-> reply]

\* The state a visitor call works on: the adaptor, the consumer's events and
\* stop request, the replies the consumer will give, and whether a consumer
\* method threw.
Running(replies) ==
    [adaptor |-> adaptor, events |-> events, stop_requested |-> stop_requested,
     replies |-> replies, threw |-> FALSE]

\* if (!_stop_consuming) { _stop_consuming = _consumer.consume(fragment); },
\* lines 54-56, 59-61 and 66-68.
ConsumeUnlessStopped(st, event) ==
    IF st.adaptor.stop_consuming THEN st
    ELSE LET reply == Head(st.replies)
         IN  [st EXCEPT !.events = Append(@, Delivered(event, reply)),
                        !.replies = Tail(@),
                        !.threw = (reply = "throw"),
                        !.adaptor.stop_consuming = (reply = "yes"),
                        !.stop_requested = @ \/ (reply = "yes")]

\* Lines 52-57: the buffered static row is moved out and consumed.
FlushStaticRow(st) ==
    IF st.threw \/ ~st.adaptor.static_row THEN st
    ELSE ConsumeUnlessStopped([st EXCEPT !.adaptor.static_row = FALSE],
                              Event("static_row", 0))

\* Lines 58-62: _rt_gen.flush(pos, ...) hands over, in position order, the
\* range tombstone changes that lie before pos.
RECURSIVE FlushTombstones(_, _)
FlushTombstones(st, pos) ==
    IF st.threw \/ st.adaptor.rt_gen = <<>> THEN st
    ELSE IF Head(st.adaptor.rt_gen) >= pos THEN st
    ELSE FlushTombstones(
             ConsumeUnlessStopped([st EXCEPT !.adaptor.rt_gen = Tail(@)],
                                  Event("range_tombstone_change", Head(st.adaptor.rt_gen))),
             pos)

\* A flush that takes the buffered clustering row and never consumes it.
FlushCurrentRowDropped(st) ==
    IF st.threw \/ st.adaptor.current_row = 0 THEN st
    ELSE [st EXCEPT !.adaptor.current_row = 0]

\* Lines 63-69: the buffered clustering row is taken and consumed.
FlushCurrentRow(st) ==
    IF st.threw \/ st.adaptor.current_row = 0 THEN st
    ELSE ConsumeUnlessStopped([st EXCEPT !.adaptor.current_row = 0],
                              Event("clustering_row", st.adaptor.current_row))

flush_rows_and_tombstones(st, pos) ==
    FlushCurrentRow(FlushTombstones(FlushStaticRow(st), pos))

\* Line 91: _consumer.consume(t); the stop_iteration it returns is dropped.
ConsumePartitionTombstone(st) ==
    LET reply == Head(st.replies)
    IN  [st EXCEPT !.events = Append(@, Delivered(Event("partition_tombstone", 0), reply)),
                   !.replies = Tail(@),
                   !.threw = (reply = "throw"),
                   !.stop_requested = @ \/ (reply = "yes")]

\* Lines 130-139: consume_end_of_partition(), whose result can only set the
\* stop state, and consume_end_of_stream().
EndOfPartitionEvents(st) ==
    LET reply == Head(st.replies)
        ended == [st EXCEPT !.events = Append(@, Delivered(Event("end_of_partition", 0),
                                                            reply)),
                            !.replies = Tail(@),
                            !.threw = (reply = "throw"),
                            !.adaptor.stop_consuming = @ \/ (reply = "yes"),
                            !.stop_requested = @ \/ (reply = "yes")]
    IN  IF ended.threw THEN ended
        ELSE [ended EXCEPT !.events = Append(@, Delivered(Event("end_of_stream", 0),
                                                          Head(ended.replies))),
                           !.replies = Tail(@),
                           !.threw = (Head(ended.replies) = "throw")]

\* An adaptor that ends a stopped consume without the two end events.
OnEndOfPartitionUnlessStopped(st) ==
    LET flushed == flush_rows_and_tombstones(st, AfterAllClusteredRows)
    IN  IF flushed.threw \/ flushed.adaptor.stop_consuming THEN flushed
        ELSE EndOfPartitionEvents(flushed)

\* on_end_of_partition(), lines 128-140.
on_end_of_partition(st) ==
    LET flushed == flush_rows_and_tombstones(st, AfterAllClusteredRows)
    IN  IF flushed.threw THEN flushed ELSE EndOfPartitionEvents(flushed)

\* The number of events a flush up to pos can deliver.
FlushSize(pos) ==
    (IF adaptor.static_row THEN 1 ELSE 0)
    + Cardinality({i \in DOMAIN adaptor.rt_gen : adaptor.rt_gen[i] < pos})
    + (IF adaptor.current_row # 0 THEN 1 ELSE 0)

ReplySeqs(n) == [1..n -> Replies]

SchemaMismatch == "schema_mismatch_error"
ConsumeFailed == "frozen_mutation::consume(): failed consuming mutation"
ConsumeGentlyFailed == "frozen_mutation::consume_gently(): failed consuming mutation"
\* What a consumer method throws.
ConsumerException == "consumer exception"

\* The catch blocks of lines 288-291 and 312-315 and the failed future of
\* lines 306-309: the error is replaced by a runtime_error that names the
\* key, the keyspace and the table.
FailedConsuming(is_gently) == IF is_gently THEN ConsumeGentlyFailed ELSE ConsumeFailed

\* adaptor.on_end_of_partition() throws.  In consume, line 287 is inside the
\* try block.  In consume_gently, line 310 is inside the continuation given
\* to then_wrapped(), which is outside the try block of lines 303-312: what
\* the continuation throws becomes the failure of the returned future as it is.
OnEndOfPartitionFailed(is_gently) ==
    IF is_gently THEN ConsumerException ELSE ConsumeFailed

\* An on_new_partition that also clears the stop state.
OnNewPartitionClearingStop(a) == [a EXCEPT !.rt_gen = <<>>, !.stop_consuming = FALSE]

\* on_new_partition, lines 84-88: _rt_gen.reset(); the static row, the current
\* row and _stop_consuming are left as they are.
on_new_partition(a) == [a EXCEPT !.rt_gen = <<>>]

\* A consume that announces the partition before it checks the schema version.
DeliveredAtMismatchAnnounced(announcement) == announcement

\* Lines 283-284 and 301-303: check_schema_version is the first statement and
\* on_new_partition follows it, so a call that fails the check has delivered
\* nothing of what on_new_partition would announce.
DeliveredAtMismatch(announcement) == <<>>

\* frozen_mutation::consume(s, adaptor), lines 282-285, and consume_gently(s,
\* adaptor), lines 301-304: check_schema_version throws on a schema of
\* another version; otherwise on_new_partition resets _rt_gen and announces
\* the partition, and the partition view starts its visit.  An exception of
\* the consumer is caught and rethrown nested.
ConsumeCall ==
    /\ consume_pc # "replaying"
    /\ consume_calls < MaxConsumeCalls
    /\ consume_calls' = consume_calls + 1
    /\ stop_requested' = FALSE
    /\ gently' \in BOOLEAN
    /\ adaptor_at_call' = adaptor
    /\ \E schema_matches \in BOOLEAN, reply \in {"no", "throw"} :
         IF ~schema_matches
         THEN /\ consume_pc' = "failed"
              /\ consume_result' = [stop |-> FALSE, error |-> SchemaMismatch]
              /\ events' = DeliveredAtMismatch(<<Delivered(Event("new_partition", 0), reply)>>)
              /\ visit_queue' = <<>>
              /\ UNCHANGED adaptor
         ELSE /\ adaptor' = on_new_partition(adaptor)
              /\ events' = <<Delivered(Event("new_partition", 0), reply)>>
              /\ IF reply = "throw"
                 THEN /\ consume_pc' = "failed"
                      /\ consume_result' = [stop |-> FALSE,
                                            error |-> FailedConsuming(gently')]
                      /\ visit_queue' = <<>>
                 ELSE /\ consume_pc' = "replaying"
                      /\ consume_result' = [stop |-> FALSE, error |-> ""]
                      /\ visit_queue' = Visits(frozen)
    /\ UNCHANGED <<frozen, planVars, ringVars, strictVars, configVars, addVars, streamVars,
                   codecVars, queryVars>>

\* The visitor call returned into partition().accept or accept_gently, or
\* threw: into the catch block of lines 288-291, or into the future that
\* lines 306-309 find failed.
VisitDone(st) ==
    /\ adaptor' = st.adaptor
    /\ events' = st.events
    /\ stop_requested' = st.stop_requested
    /\ IF st.threw
       THEN /\ consume_pc' = "failed"
            /\ consume_result' = [stop |-> FALSE, error |-> FailedConsuming(gently)]
            /\ visit_queue' = <<>>
       ELSE /\ visit_queue' = Tail(visit_queue)
            /\ UNCHANGED <<consume_pc, consume_result>>
    /\ UNCHANGED <<frozen, consume_calls, gently, adaptor_at_call, planVars, ringVars,
                   strictVars, configVars, addVars, streamVars, codecVars, queryVars>>

Visiting(op) ==
    /\ consume_pc = "replaying"
    /\ visit_queue # <<>>
    /\ Head(visit_queue).op = op

\* accept_partition_tombstone, lines 90-92.
AcceptPartitionTombstone ==
    /\ Visiting("accept_partition_tombstone")
    /\ \E replies \in ReplySeqs(1) : VisitDone(ConsumePartitionTombstone(Running(replies)))

\* accept_static_cell, lines 94-102: the cell is buffered in _static_row.
AcceptStaticCell ==
    /\ Visiting("accept_static_cell")
    /\ VisitDone([Running(<<>>) EXCEPT !.adaptor.static_row = TRUE])

\* accept_row_tombstone, lines 104-107.
AcceptRowTombstone ==
    /\ Visiting("accept_row_tombstone")
    /\ LET rt == Head(visit_queue)
       IN  \E replies \in ReplySeqs(FlushSize(rt.pos)) :
             LET flushed == flush_rows_and_tombstones(Running(replies), rt.pos)
             IN  VisitDone(IF flushed.threw THEN flushed
                           ELSE [flushed EXCEPT !.adaptor.rt_gen = @ \o <<rt.pos, rt.end>>])

\* accept_row, lines 109-116.
AcceptRow ==
    /\ Visiting("accept_row")
    /\ LET key == Head(visit_queue).pos
       IN  \E replies \in ReplySeqs(FlushSize(key)) :
             LET flushed == flush_rows_and_tombstones(Running(replies), key)
             IN  VisitDone(IF flushed.threw THEN flushed
                           ELSE [flushed EXCEPT !.adaptor.current_row = key])

\* accept_row_cell, lines 118-126: the cell goes into the buffered row.
AcceptRowCell ==
    /\ Visiting("accept_row_cell")
    /\ VisitDone(Running(<<>>))

\* The visit is over: on_end_of_partition() and the return of its result,
\* line 287 or line 310.
OnEndOfPartition ==
    /\ consume_pc = "replaying"
    /\ visit_queue = <<>>
    /\ \E replies \in ReplySeqs(FlushSize(AfterAllClusteredRows) + 2) :
         LET st == on_end_of_partition(Running(replies))
         IN  /\ adaptor' = st.adaptor
             /\ events' = st.events
             /\ stop_requested' = st.stop_requested
             /\ IF st.threw
                THEN /\ consume_pc' = "failed"
                     /\ consume_result' = [stop |-> FALSE,
                                           error |-> OnEndOfPartitionFailed(gently)]
                ELSE /\ consume_pc' = "returned"
                     /\ consume_result' = [stop |-> st.adaptor.stop_consuming, error |-> ""]
    /\ UNCHANGED <<frozen, visit_queue, consume_calls, gently, adaptor_at_call, planVars,
                   ringVars, strictVars, configVars, addVars, streamVars, codecVars, queryVars>>

ConsumeInit ==
    /\ frozen \in FrozenMutations
    /\ visit_queue = <<>>
    /\ adaptor = NewAdaptor
    /\ events = <<>>
    /\ stop_requested = FALSE
    /\ consume_pc = "idle"
    /\ consume_result = [stop |-> FALSE, error |-> ""]
    /\ consume_calls = 0
    /\ gently = FALSE
    /\ adaptor_at_call = NewAdaptor
    /\ PlanIdle
    /\ replication_factor = 1
    /\ RingIdle
    /\ StrictIdle
    /\ ConfigIdle
    /\ AddIdle
    /\ StreamIdle
    /\ CodecIdle
    /\ QueryIdle

ConsumeNext ==
    \/ ConsumeCall
    \/ AcceptPartitionTombstone
    \/ AcceptStaticCell
    \/ AcceptRowTombstone
    \/ AcceptRow
    \/ AcceptRowCell
    \/ OnEndOfPartition

SpecConsume == ConsumeInit /\ [][ConsumeNext]_vars

(***************************************************************************)
(* Properties of frozen_mutation::consume                                  *)
(***************************************************************************)

\* The positions in the current call's event sequence of the events of a type.
EventPositions(type) == {i \in DOMAIN events : events[i].type = type}

\* C20: a consume call that returned has delivered consume_end_of_partition
\* exactly once, as the last event but one, and consume_end_of_stream exactly
\* once, as the last event, whether or not the consumer asked to stop; while
\* the content is replayed neither has been delivered.
C20_EndEventsOnceInOrder ==
    /\ consume_pc = "returned" =>
           /\ Len(events) >= 3
           /\ EventPositions("end_of_partition") = {Len(events) - 1}
           /\ EventPositions("end_of_stream") = {Len(events)}
    /\ consume_pc = "replaying" =>
           /\ EventPositions("end_of_partition") = {}
           /\ EventPositions("end_of_stream") = {}

\* A call returned with stop = yes after the consumer stopped it at the first
\* of two clustering rows; the second row was not delivered.
C20_Witness ==
    /\ consume_pc = "returned"
    /\ consume_calls = 1
    /\ stop_requested
    /\ consume_result.stop
    /\ Len(frozen.rows) = 2
    /\ Cardinality(EventPositions("clustering_row")) = 1
    /\ EventPositions("end_of_stream") = {Len(events)}

\* The consume() methods of the consumer, whose stop_iteration asks to stop,
\* and the events that carry the content of the partition.
StoppingEvents == {"partition_tombstone", "static_row", "clustering_row",
                   "range_tombstone_change"}
ContentEvents == {"static_row", "clustering_row", "range_tombstone_change"}

\* The events of the current call at which the consumer returned
\* stop_iteration::yes from a consume() method.
StopsAt(types) ==
    {i \in DOMAIN events : events[i].type \in types /\ events[i].reply = "yes"}

\* C21: once the consumer has returned stop_iteration::yes from a consume()
\* method (partition tombstone, static row, clustering row or range
\* tombstone change), no static row, clustering row or range tombstone
\* change is delivered to it later in the same consume call.
C21_NoContentAfterStop ==
    \A i \in StopsAt(StoppingEvents) :
        \A j \in DOMAIN events : j > i => events[j].type \notin ContentEvents

\* The consumer asked for no stop: not in the current call, and not in an
\* earlier call on the adaptor, whose stop state is never reset.
NeverStopped ==
    /\ ~adaptor.stop_consuming
    /\ \A i \in DOMAIN events : events[i].reply = "no"

\* The events of the current call that deliver the clustering row at pos, or
\* a range tombstone change at pos.
RowEvents(pos) ==
    {i \in EventPositions("clustering_row") : events[i].pos = pos}
ChangeEvents(pos) ==
    {i \in EventPositions("range_tombstone_change") : events[i].pos = pos}

\* The order of a whole replay: new partition, partition tombstone, the
\* static row at most once (when the mutation has static cells) and before
\* the clustered content, every clustering row exactly once and the changes
\* of every range tombstone, then end of partition and end of stream.
WholeReplayInOrder ==
    LET n == Len(events)
        clustered == EventPositions("clustering_row")
                     \cup EventPositions("range_tombstone_change")
    IN  /\ n >= 4
        /\ EventPositions("new_partition") = {1}
        /\ EventPositions("partition_tombstone") = {2}
        /\ EventPositions("static_row") = (IF frozen.static_cells > 0 THEN {3} ELSE {})
        /\ \A i \in clustered : 2 < i /\ i < n - 1
        /\ \A i \in EventPositions("static_row"), j \in clustered : i < j
        /\ \A k \in DOMAIN frozen.rows : Cardinality(RowEvents(frozen.rows[k])) = 1
        /\ Cardinality(EventPositions("clustering_row")) = Len(frozen.rows)
        /\ \A k \in DOMAIN frozen.range_tombstones :
               /\ Cardinality(ChangeEvents(frozen.range_tombstones[k][1])) = 1
               /\ Cardinality(ChangeEvents(frozen.range_tombstones[k][2])) = 1
        /\ Cardinality(EventPositions("range_tombstone_change"))
               = 2 * Len(frozen.range_tombstones)
        /\ EventPositions("end_of_partition") = {n - 1}
        /\ EventPositions("end_of_stream") = {n}

\* The call found no static row and no clustering row buffered in the
\* adaptor: it is the first call on the adaptor, or every earlier call on it
\* ran to its final flush.
CallFoundNothingBuffered ==
    /\ ~adaptor_at_call.static_row
    /\ adaptor_at_call.current_row = 0

ClusteredEvents ==
    EventPositions("clustering_row") \cup EventPositions("range_tombstone_change")

\* C23: the clustering rows and range tombstone changes delivered in a
\* consume call are in non-decreasing position order: no range tombstone
\* change is delivered before a clustering row of a smaller position.
C23_ClusteredInPositionOrder ==
    \A i, j \in ClusteredEvents : i < j => events[i].pos <= events[j].pos

\* The events that replay the content of the frozen mutation.
ReplayedEvents == {"new_partition", "partition_tombstone"} \cup ContentEvents

\* C26: an error raised while consume or consume_gently replays the content
\* reaches the caller wrapped in the error that names the partition key, the
\* keyspace and the table; it is never swallowed, and the call does not
\* return a normal result after it.
C26_ReplayErrorsWrapped ==
    \A i \in DOMAIN events :
        (events[i].type \in ReplayedEvents /\ events[i].reply = "throw")
            => /\ consume_pc = "failed"
               /\ consume_result.error = FailedConsuming(gently)

(***************************************************************************)
(* The frozen mutation codec: freeze, unfreeze, the partition view,        *)
(* frozen_mutation_fragment and fragment_and_freeze (declared in           *)
(* frozen_mutation.hh, exercised by test/boost/frozen_mutation_test.cc)    *)
(***************************************************************************)

\* Schemas as the test builds them: s1, s2 with a column added, s3 with
\* columns dropped and s4 with the column types changed.  The version of a
\* schema is a digest of its definition, so different schemas differ in it.
TestSchemas ==
    {[version |-> 1, columns |-> <<"reg_1:bytes", "reg_2:bytes">>],
     [version |-> 2, columns |-> <<"reg_0:bytes", "reg_1:bytes", "reg_2:bytes">>],
     [version |-> 3, columns |-> <<"reg_3:bytes">>],
     [version |-> 4, columns |-> <<"reg_1:int32", "reg_2:int32">>]}

\* The names of the columns of a schema, without their types.
ColumnNames(s) ==
    [i \in DOMAIN s.columns |->
        IF s.columns[i] \in {"reg_1:bytes", "reg_1:int32"} THEN "reg_1"
        ELSE IF s.columns[i] \in {"reg_2:bytes", "reg_2:int32"} THEN "reg_2"
        ELSE s.columns[i]]

\* Partition keys, write timestamps and cell values.
PartitionKeys == 1..MaxPartitionKeys
Timestamps == 1..MaxTimestamp

\* A cell <<timestamp, value>>; NoCell is the absence of a cell.
NoCell == <<0, 0>>
LiveCells == {<<t, t>> : t \in Timestamps}

\* Clustering keys sit at the row positions and range tombstones
\* <<start, end, timestamp>> between them, in position order.
ClusteringKeys == <<2, 4>>
RangeTombstoneOrder == <<<<1, 3, 1>>, <<3, 5, 2>>>>

\* The clustering rows <<key, cell>> of a partition, in key order.
RowLists ==
    {q \in SeqUpTo(SeqRange(ClusteringKeys) \X LiveCells, Len(ClusteringKeys)) :
        \A i, j \in DOMAIN q : i < j => q[i][1] < q[j][1]}

RangeTombstoneLists ==
    {q \in SeqUpTo(SeqRange(RangeTombstoneOrder), MaxCodecRangeTombstones) :
        \A i, j \in DOMAIN q : i < j => q[i][1] < q[j][1]}

\* A mutation: the version of the schema it was built under, the partition
\* key, the partition tombstone (0 when there is none), the static row's
\* cell, the range tombstones and the clustering rows.
Mutation(version, key, tomb, static, rts, rows) ==
    [schema |-> version, key |-> key, tomb |-> tomb, static |-> static,
     rts |-> rts, rows |-> rows]

EmptyMutation(version, key) == Mutation(version, key, 0, NoCell, <<>>, <<>>)

Mutations ==
    {Mutation(v, k, t, c, rts, rows) :
        v \in 1..MaxBuildSchemas, k \in PartitionKeys, t \in {0} \cup Timestamps,
        c \in {NoCell} \cup LiveCells, rts \in RangeTombstoneLists, rows \in RowLists}

\* dht::decorate_key: the key with its token.
DecorateKey(key) == [token |-> (key * 7) % 4, key |-> key]

\* The serialized form is a sequence of numbers.  An absent cell is written
\* as 0 and a cell as 1 followed by its timestamp and value.
WriteCell(cell) == IF cell = NoCell THEN <<0>> ELSE <<1, cell[1], cell[2]>>

RECURSIVE WriteRangeTombstones(_)
WriteRangeTombstones(rts) ==
    IF rts = <<>> THEN <<>>
    ELSE <<Head(rts)[1], Head(rts)[2], Head(rts)[3]>> \o WriteRangeTombstones(Tail(rts))

RECURSIVE WriteRows(_)
WriteRows(rows) ==
    IF rows = <<>> THEN <<>>
    ELSE <<Head(rows)[1]>> \o WriteCell(Head(rows)[2]) \o WriteRows(Tail(rows))

\* A writer that leaves out the schema version and stamps 0.
SerializeUnstamped(m) ==
    <<0, m.key, m.tomb>> \o WriteCell(m.static)
    \o <<Len(m.rts)>> \o WriteRangeTombstones(m.rts)
    \o <<Len(m.rows)>> \o WriteRows(m.rows)

\* The bytes of a frozen mutation: the schema version, the key, the
\* partition tombstone, the static row, the counted range tombstones and the
\* counted rows.
Serialize(m) ==
    <<m.schema, m.key, m.tomb>> \o WriteCell(m.static)
    \o <<Len(m.rts)>> \o WriteRangeTombstones(m.rts)
    \o <<Len(m.rows)>> \o WriteRows(m.rows)

\* freeze(m): the bytes, and the partition key extracted up front.
freeze(m) == [bytes |-> Serialize(m), pk |-> m.key]

Drop(bytes, n) == SubSeq(bytes, n + 1, Len(bytes))

ReadCell(bytes) ==
    IF Head(bytes) = 0 THEN [value |-> NoCell, rest |-> Tail(bytes)]
    ELSE [value |-> <<bytes[2], bytes[3]>>, rest |-> Drop(bytes, 3)]

RECURSIVE ReadRangeTombstones(_, _)
ReadRangeTombstones(bytes, n) ==
    IF n = 0 THEN [value |-> <<>>, rest |-> bytes]
    ELSE LET others == ReadRangeTombstones(Drop(bytes, 3), n - 1)
         IN  [value |-> <<<<bytes[1], bytes[2], bytes[3]>>>> \o others.value,
              rest |-> others.rest]

RECURSIVE ReadRows(_, _)
ReadRows(bytes, n) ==
    IF n = 0 THEN [value |-> <<>>, rest |-> bytes]
    ELSE LET cell == ReadCell(Tail(bytes))
             others == ReadRows(cell.rest, n - 1)
         IN  [value |-> <<<<Head(bytes), cell.value>>>> \o others.value,
              rest |-> others.rest]

\* The mutation the bytes describe.
Deserialize(bytes) ==
    LET static == ReadCell(Drop(bytes, 3))
        rts == ReadRangeTombstones(Tail(static.rest), Head(static.rest))
        rows == ReadRows(Tail(rts.rest), Head(rts.rest))
    IN  Mutation(bytes[1], bytes[2], bytes[3], static.value, rts.value, rows.value)

\* frozen_mutation::schema_version() and decorated_key(s).
schema_version(fm) == fm.bytes[1]
decorated_key(fm) == DecorateKey(fm.pk)

\* A check that accepts every schema with the same column names.
CheckSchemaVersionByColumnNames(version, s) ==
    \E built \in TestSchemas :
        built.version = version /\ ColumnNames(built) = ColumnNames(s)

\* check_schema_version: the schema must have the version the mutation was
\* frozen under.
check_schema_version(version, s) == version = s.version

NoMutation == [schema |-> 0]

\* unfreeze(s): throws schema_mismatch_error for a schema of another
\* version, and otherwise returns the mutation read from the bytes.
unfreeze(fm, s) ==
    IF ~check_schema_version(schema_version(fm), s)
    THEN [threw |-> TRUE, error |-> SchemaMismatch, mutation |-> NoMutation]
    ELSE [threw |-> FALSE, error |-> "", mutation |-> Deserialize(fm.bytes)]

\* unfreeze_gently(s) does the same work, yielding between the rows.
unfreeze_gently(fm, s) == unfreeze(fm, s)

\* A mutation is frozen and the frozen mutation is unfrozen, with unfreeze
\* or unfreeze_gently, against one of the schemas.
FreezeAndUnfreeze ==
    /\ codec_out.op = "none"
    /\ \E s \in TestSchemas, is_gently \in BOOLEAN :
         LET fm == freeze(codec_in)
         IN  codec_out' = [op |-> "unfreeze", gently |-> is_gently, schema |-> s,
                           frozen |-> fm,
                           result |-> IF is_gently THEN unfreeze_gently(fm, s)
                                      ELSE unfreeze(fm, s)]
    /\ UNCHANGED <<codec_in, planVars, ringVars, strictVars, configVars, addVars,
                   streamVars, consumeVars, queryVars>>

\* C24: freezing a mutation built under a schema and unfreezing it, with
\* unfreeze or unfreeze_gently, against that schema gives a mutation equal to
\* the original; the frozen mutation's schema version is the schema's and
\* its decorated key is the mutation's.
C24_FreezeUnfreezeRoundTrip ==
    (codec_out.op = "unfreeze" /\ codec_out.schema.version = codec_in.schema) =>
        /\ ~codec_out.result.threw
        /\ codec_out.result.mutation = codec_in
        /\ schema_version(codec_out.frozen) = codec_out.schema.version
        /\ decorated_key(codec_out.frozen) = DecorateKey(codec_in.key)

\* A mutation with a partition tombstone, a static row, a range tombstone
\* and two clustering rows came back from unfreeze_gently.
C24_Witness ==
    /\ codec_out.op = "unfreeze"
    /\ codec_out.gently
    /\ codec_out.schema.version = codec_in.schema
    /\ codec_in.tomb # 0
    /\ codec_in.static # NoCell
    /\ Len(codec_in.rts) = 1
    /\ Len(codec_in.rows) = 2
    /\ codec_out.result.mutation = codec_in

\* C25: unfreezing against a schema whose version differs from the version
\* the mutation was frozen under fails with schema_mismatch_error and
\* returns no mutation, whatever the difference between the schemas.
C25_WrongSchemaThrows ==
    (codec_out.op = "unfreeze" /\ codec_out.schema.version # codec_in.schema) =>
        /\ codec_out.result.threw
        /\ codec_out.result.error = SchemaMismatch
        /\ codec_out.result.mutation = NoMutation

\* A mutation built under s1 was unfrozen against s4, which has the same
\* columns with other types, and the call threw.
C25_Witness ==
    /\ codec_out.op = "unfreeze"
    /\ codec_in.schema = 1
    /\ codec_out.schema.version = 4
    /\ Len(codec_in.rows) = 2
    /\ codec_out.result.threw

\* mutation_partition::apply.  Of two cells the one written later wins, and
\* the larger value on equal timestamps.
Reconcile(a, b) ==
    IF a = NoCell THEN b
    ELSE IF b = NoCell THEN a
    ELSE IF b[1] > a[1] \/ (b[1] = a[1] /\ b[2] >= a[2]) THEN b ELSE a

HasRow(rows, ck) == \E i \in DOMAIN rows : rows[i][1] = ck
CellOf(rows, ck) ==
    IF HasRow(rows, ck) THEN rows[CHOOSE i \in DOMAIN rows : rows[i][1] = ck][2]
    ELSE NoCell

\* The rows of two partitions merged, in key order.
MergeRows(rows, others) ==
    LET present == SelectSeq(ClusteringKeys,
                             LAMBDA ck : HasRow(rows, ck) \/ HasRow(others, ck))
    IN  [i \in DOMAIN present |->
            <<present[i], Reconcile(CellOf(rows, present[i]), CellOf(others, present[i]))>>]

\* The range tombstones of two partitions merged, in position order.
MergeRangeTombstones(rts, others) ==
    SelectSeq(RangeTombstoneOrder, LAMBDA rt : rt \in SeqRange(rts) \cup SeqRange(others))

\* An apply that lets the applied partition's cells win whatever their timestamps.
ApplyOverwriting(m, p) ==
    [m EXCEPT !.tomb = Max(@, p.tomb),
              !.static = IF p.static = NoCell THEN @ ELSE p.static,
              !.rts = MergeRangeTombstones(@, p.rts),
              !.rows = LET merged == MergeRows(@, p.rows)
                       IN  [i \in DOMAIN merged |->
                               IF HasRow(p.rows, merged[i][1])
                               THEN <<merged[i][1], CellOf(p.rows, merged[i][1])>>
                               ELSE merged[i]]]

\* m.partition().apply(s, p, s, stats) for the partition p of a mutation.
Apply(m, p) ==
    [m EXCEPT !.tomb = Max(@, p.tomb),
              !.static = Reconcile(@, p.static),
              !.rts = MergeRangeTombstones(@, p.rts),
              !.rows = MergeRows(@, p.rows)]

\* frozen_mutation::partition() and mutation_partition_view::accept: the view
\* reads the bytes and gives the visitor the partition tombstone, the static
\* cell, the range tombstones and the rows, each followed by its cell.
ViewVisit(op, key, value) == [op |-> op, key |-> key, value |-> value]

RECURSIVE ViewRowVisits(_)
ViewRowVisits(rows) ==
    IF rows = <<>> THEN <<>>
    ELSE <<ViewVisit("accept_row", Head(rows)[1], NoCell),
           ViewVisit("accept_row_cell", Head(rows)[1], Head(rows)[2])>>
         \o ViewRowVisits(Tail(rows))

PartitionViewVisits(fm) ==
    LET content == Deserialize(fm.bytes)
    IN  <<ViewVisit("accept_partition_tombstone", 0, <<content.tomb, 0>>)>>
        \o (IF content.static = NoCell THEN <<>>
            ELSE <<ViewVisit("accept_static_cell", 0, content.static)>>)
        \o [i \in DOMAIN content.rts |->
               ViewVisit("accept_row_tombstone", content.rts[i][1],
                         <<content.rts[i][2], content.rts[i][3]>>)]
        \o ViewRowVisits(content.rows)

\* The visitor that applies what it is given to a partition.
ApplyVisit(m, visit) ==
    CASE visit.op = "accept_partition_tombstone" ->
             [m EXCEPT !.tomb = Max(@, visit.value[1])]
      [] visit.op = "accept_static_cell" ->
             [m EXCEPT !.static = Reconcile(@, visit.value)]
      [] visit.op = "accept_row_tombstone" ->
             [m EXCEPT !.rts = MergeRangeTombstones(
                                   @, <<<<visit.key, visit.value[1], visit.value[2]>>>>)]
      [] visit.op \in {"accept_row", "accept_row_cell"} ->
             [m EXCEPT !.rows = MergeRows(@, <<<<visit.key, visit.value>>>>)]

RECURSIVE ApplyVisits(_, _)
ApplyVisits(m, visits) ==
    IF visits = <<>> THEN m ELSE ApplyVisits(ApplyVisit(m, Head(visits)), Tail(visits))

\* m.partition().apply(s, fm.partition(), s, stats) for a frozen mutation.
ApplyView(m, fm) == ApplyVisits(m, PartitionViewVisits(fm))

\* The second mutation of the same partition and schema.
SecondMutations(m) ==
    {other \in Mutations :
        /\ other.schema = m.schema /\ other.key = m.key
        /\ other.tomb = 0 /\ other.rts = <<>> /\ Len(other.rows) <= 1}

SchemaOfVersion(version) == CHOOSE s \in TestSchemas : s.version = version

\* Two mutations are applied to an empty mutation in three ways: through
\* the partition views of their frozen forms, as they are, and after a
\* freeze and an unfreeze.
ApplyBothWays ==
    /\ codec_out.op = "none"
    /\ \E m2 \in SecondMutations(codec_in) :
         LET m1 == codec_in
             s == SchemaOfVersion(m1.schema)
             empty == EmptyMutation(m1.schema, m1.key)
         IN  codec_out' =
                 [op |-> "apply", m2 |-> m2,
                  m_frozen |-> ApplyView(ApplyView(empty, freeze(m1)), freeze(m2)),
                  m_unfrozen |-> Apply(Apply(empty, m1), m2),
                  m_refrozen |-> Apply(Apply(empty, unfreeze(freeze(m1), s).mutation),
                                       unfreeze(freeze(m2), s).mutation)]
    /\ UNCHANGED <<codec_in, planVars, ringVars, strictVars, configVars, addVars,
                   streamVars, consumeVars, queryVars>>

\* C29: applying the partition views of freeze(m1) and freeze(m2) to an
\* empty mutation gives the mutation that applying m1 and m2 gives, and the
\* one that applying the unfrozen freeze(m1) and freeze(m2) gives.
C29_ViewApplicationEquivalent ==
    codec_out.op = "apply" =>
        /\ codec_out.m_unfrozen = codec_out.m_refrozen
        /\ codec_out.m_unfrozen = codec_out.m_frozen

\* Both mutations wrote the static cell and the row at the first key, the
\* first one later than the second, and the first also has a partition
\* tombstone and a range tombstone.
C29_Witness ==
    /\ codec_out.op = "apply"
    /\ codec_in.tomb # 0
    /\ Len(codec_in.rts) = 1
    /\ codec_in.static = <<2, 2>> /\ codec_out.m2.static = <<1, 1>>
    /\ HasRow(codec_in.rows, 2) /\ HasRow(codec_out.m2.rows, 2)
    /\ CellOf(codec_in.rows, 2)[1] > CellOf(codec_out.m2.rows, 2)[1]
    /\ codec_out.m_frozen.static = <<2, 2>>

\* mutation_fragment: a partition start with the key and the partition
\* tombstone, a static row, a clustering row, a range tombstone or a
\* partition end.
Fragment(kind, a, b, c) == [kind |-> kind, a |-> a, b |-> b, c |-> c]

\* The clustering rows and range tombstones of a partition as the reader
\* emits them, in position order.
RECURSIVE ClusteredFragments(_, _)
ClusteredFragments(rts, rows) ==
    IF rts = <<>> /\ rows = <<>> THEN <<>>
    ELSE IF rows = <<>> \/ (rts # <<>> /\ Head(rts)[1] < Head(rows)[1])
    THEN <<Fragment("range_tombstone", Head(rts)[1], Head(rts)[2], Head(rts)[3])>>
         \o ClusteredFragments(Tail(rts), rows)
    ELSE <<Fragment("clustering_row", Head(rows)[1], Head(rows)[2][1], Head(rows)[2][2])>>
         \o ClusteredFragments(rts, Tail(rows))

\* make_flat_mutation_reader_from_mutations_v2 read to its end.
MutationFragments(m) ==
    <<Fragment("partition_start", m.key, m.tomb, 0)>>
    \o (IF m.static = NoCell THEN <<>>
        ELSE <<Fragment("static_row", m.static[1], m.static[2], 0)>>)
    \o ClusteredFragments(m.rts, m.rows)
    \o <<Fragment("partition_end", 0, 0, 0)>>

FragmentKinds ==
    <<"partition_start", "static_row", "clustering_row", "range_tombstone", "partition_end">>

KindTag(kind) == CHOOSE i \in DOMAIN FragmentKinds : FragmentKinds[i] = kind

\* A writer that leaves out the last field of every fragment.
FreezeFragmentTruncated(mf) ==
    CASE mf.kind \in {"partition_start", "static_row"} -> <<KindTag(mf.kind), mf.a, mf.b>>
      [] mf.kind \in {"clustering_row", "range_tombstone"} -> <<KindTag(mf.kind), mf.a, mf.b, 0>>
      [] mf.kind = "partition_end" -> <<KindTag(mf.kind)>>

\* freeze(s, mf): the tag of the fragment's kind and the fields of that kind.
freeze_fragment(mf) ==
    CASE mf.kind \in {"partition_start", "static_row"} -> <<KindTag(mf.kind), mf.a, mf.b>>
      [] mf.kind \in {"clustering_row", "range_tombstone"} ->
             <<KindTag(mf.kind), mf.a, mf.b, mf.c>>
      [] mf.kind = "partition_end" -> <<KindTag(mf.kind)>>

\* frozen_mutation_fragment::unfreeze(s, permit).
unfreeze_fragment(bytes) ==
    LET kind == FragmentKinds[Head(bytes)]
    IN  CASE Len(bytes) = 1 -> Fragment(kind, 0, 0, 0)
          [] Len(bytes) = 3 -> Fragment(kind, bytes[2], bytes[3], 0)
          [] Len(bytes) = 4 -> Fragment(kind, bytes[2], bytes[3], bytes[4])

\* A fragment read from the mutation is frozen and unfrozen.
FreezeAndUnfreezeFragment ==
    /\ codec_out.op = "none"
    /\ \E i \in DOMAIN MutationFragments(codec_in) :
         LET mf == MutationFragments(codec_in)[i]
         IN  codec_out' = [op |-> "unfreeze_fragment", mf |-> mf,
                           refrozen_mf |-> unfreeze_fragment(freeze_fragment(mf))]
    /\ UNCHANGED <<codec_in, planVars, ringVars, strictVars, configVars, addVars,
                   streamVars, consumeVars, queryVars>>

\* C27: every mutation fragment read from a mutation (partition start,
\* static row, clustering row, range tombstone, partition end) is equal to
\* what unfreezing its frozen form gives.
C27_FragmentRoundTrip ==
    codec_out.op = "unfreeze_fragment" => codec_out.refrozen_mf = codec_out.mf

\* A range tombstone of a mutation that also has a static row and two
\* clustering rows went through freeze and unfreeze.
C27_Witness ==
    /\ codec_out.op = "unfreeze_fragment"
    /\ codec_out.mf.kind = "range_tombstone"
    /\ codec_out.refrozen_mf.c # 0
    /\ codec_in.static # NoCell
    /\ Len(codec_in.rows) = 2

\* fragment_and_freeze: the fragments of the partition go into a
\* streamed_mutation_freezer; once the rows and tombstones collected reach
\* the fragment size the freezer's frozen mutation is emitted and a new
\* freezer is started, and the end of the partition emits what is left.
FreezerStart(m) ==
    [freezer |-> EmptyMutation(m.schema, m.key), dirty |-> 0, emitted |-> <<>>]

\* A flush that starts the new freezer without emitting the old one.
FlushFreezerDropping(st) ==
    [st EXCEPT !.freezer = EmptyMutation(@.schema, @.key), !.dirty = 0]

FlushFreezer(st) ==
    [st EXCEPT !.emitted = Append(@, freeze(st.freezer)),
               !.freezer = EmptyMutation(@.schema, @.key),
               !.dirty = 0]

MaybeFlush(st, fragment_size) ==
    IF st.dirty >= fragment_size THEN FlushFreezer(st) ELSE st

FreezerConsume(st, mf, fragment_size) ==
    CASE mf.kind = "partition_start" -> [st EXCEPT !.freezer.tomb = mf.b]
      [] mf.kind = "static_row" ->
             [st EXCEPT !.freezer.static = <<mf.a, mf.b>>, !.dirty = @ + 1]
      [] mf.kind = "clustering_row" ->
             MaybeFlush([st EXCEPT !.freezer.rows = Append(@, <<mf.a, <<mf.b, mf.c>>>>),
                                   !.dirty = @ + 1], fragment_size)
      [] mf.kind = "range_tombstone" ->
             MaybeFlush([st EXCEPT !.freezer.rts = Append(@, <<mf.a, mf.b, mf.c>>),
                                   !.dirty = @ + 1], fragment_size)
      [] mf.kind = "partition_end" ->
             IF st.dirty > 0 \/ st.emitted = <<>> THEN FlushFreezer(st) ELSE st

RECURSIVE FreezerConsumeAll(_, _, _)
FreezerConsumeAll(st, mfs, fragment_size) ==
    IF mfs = <<>> THEN st
    ELSE FreezerConsumeAll(FreezerConsume(st, Head(mfs), fragment_size), Tail(mfs),
                           fragment_size)

fragment_and_freeze(m, fragment_size) ==
    FreezerConsumeAll(FreezerStart(m), MutationFragments(m), fragment_size).emitted

\* The unfrozen frozen mutations applied together to an empty mutation.
RECURSIVE ApplyAllUnfrozen(_, _, _)
ApplyAllUnfrozen(m, fms, s) ==
    IF fms = <<>> THEN m
    ELSE ApplyAllUnfrozen(Apply(m, unfreeze(Head(fms), s).mutation), Tail(fms), s)

\* The rows and range tombstones of the frozen mutations, one after another.
RECURSIVE ClusteredContent(_)
ClusteredContent(fms) ==
    IF fms = <<>> THEN <<>>
    ELSE LET content == Deserialize(Head(fms).bytes)
         IN  ClusteredFragments(content.rts, content.rows) \o ClusteredContent(Tail(fms))

\* A mutation is read, fragmented and frozen with a fragment size counted
\* in rows, and the frozen mutations are unfrozen and applied together.
FragmentAndFreeze ==
    /\ codec_out.op = "none"
    /\ \E fragment_size \in 1..MaxFragmentSize :
         LET fms == fragment_and_freeze(codec_in, fragment_size)
             s == SchemaOfVersion(codec_in.schema)
         IN  codec_out' = [op |-> "fragment_and_freeze", fragment_size |-> fragment_size,
                           fms |-> fms,
                           rebuilt |-> ApplyAllUnfrozen(
                                           EmptyMutation(codec_in.schema, codec_in.key),
                                           fms, s)]
    /\ UNCHANGED <<codec_in, planVars, ringVars, strictVars, configVars, addVars,
                   streamVars, consumeVars, queryVars>>

\* C28: for every mutation and every fragment size, also that of one row,
\* the frozen mutations emitted by fragment_and_freeze, unfrozen and applied
\* together, give a mutation equal to the original, and their rows and
\* range tombstones taken one frozen mutation after another are in the
\* original's order.
C28_FragmentedFreezeLossless ==
    codec_out.op = "fragment_and_freeze" =>
        /\ codec_out.rebuilt = codec_in
        /\ ClusteredContent(codec_out.fms) = ClusteredFragments(codec_in.rts, codec_in.rows)

\* A mutation with a partition tombstone, a static row, a range tombstone
\* and two rows was cut at every row into three frozen mutations.
C28_Witness ==
    /\ codec_out.op = "fragment_and_freeze"
    /\ codec_out.fragment_size = 1
    /\ codec_in.tomb # 0 /\ codec_in.static # NoCell
    /\ Len(codec_in.rts) = 1 /\ Len(codec_in.rows) = 2
    /\ Len(codec_out.fms) = 3
    /\ codec_out.rebuilt = codec_in

CodecInit ==
    /\ codec_in \in Mutations
    /\ codec_out = [op |-> "none"]
    /\ PlanIdle
    /\ replication_factor = 1
    /\ RingIdle
    /\ StrictIdle
    /\ ConfigIdle
    /\ AddIdle
    /\ StreamIdle
    /\ ConsumeIdle
    /\ QueryIdle

CodecNext ==
    \/ FreezeAndUnfreeze
    \/ ApplyBothWays
    \/ FreezeAndUnfreezeFragment
    \/ FragmentAndFreeze

SpecCodec == CodecInit /\ [][CodecNext]_vars

(***************************************************************************)
(* Strict mode: which replica becomes the source                           *)
(***************************************************************************)

\* The source recorded for a desired range by a strict resolution.
ChosenSource(d) == st_result.range_sources[d][1]

StrictReturned == st_pc = "returned" /\ ~st_result.threw

\* C31 as stated: whenever strict resolution succeeds, the source of every
\* desired range is an active replica of the containing ring range that is no
\* replica of the desired range in the pending view, whatever the number of
\* active replicas.
C31_SourceLeavesReplicaSet ==
    StrictReturned =>
        \A j \in DOMAIN desired_ranges :
            \A src \in ContainingRanges(desired_ranges[j]) :
                ChosenSource(desired_ranges[j]) \in ActiveMinusPending(src, desired_ranges[j])

\* C31 amended: the source is the active replica that leaves the replica set
\* wherever the active replica count equals the replication factor; where the
\* count differs the source is the first active replica, whether or not it
\* stays a replica in the pending view.
C31_SourceLeavesReplicaSetWhenCountIsRF ==
    StrictReturned =>
        \A j \in DOMAIN desired_ranges :
            \A src \in ContainingRanges(desired_ranges[j]) :
                LET d == desired_ranges[j]
                IN  IF Len(range_addresses[src]) = replication_factor
                    THEN ActiveMinusPending(src, d) = {ChosenSource(d)}
                    ELSE ChosenSource(d) = range_addresses[src][1]

\* A successful resolution of two desired ranges: one whose two active replicas
\* equal the replication factor and whose source leaves the replica set, one
\* with a single active replica that stays a replica in the pending view.
C31_Witness ==
    /\ StrictReturned
    /\ replication_factor = 2
    /\ Len(desired_ranges) = 2
    /\ \E j, k \in DOMAIN desired_ranges :
         /\ \E src \in ContainingRanges(desired_ranges[j]) :
              /\ Len(range_addresses[src]) = 2
              /\ ChosenSource(desired_ranges[j]) \notin pending_range_addresses[desired_ranges[j]]
         /\ \E src \in ContainingRanges(desired_ranges[k]) :
              /\ Len(range_addresses[src]) = 1
              /\ ChosenSource(desired_ranges[k]) \in pending_range_addresses[desired_ranges[k]]

(***************************************************************************)
(* get_range_fetch_map: which ranges are left out of the fetch map         *)
(***************************************************************************)

\* Every candidate other than the local node is rejected by some filter.
EveryPeerRejected(addresses) ==
    \A i \in DOMAIN addresses :
        addresses[i] # Self => Filtered(source_filters, addresses[i])

LocalAmong(addresses) == \E i \in DOMAIN addresses : addresses[i] = Self

\* C32: after a normal return an input range is absent from the fetch map
\* exactly when every non-local candidate is rejected by a filter and the
\* local node is a candidate or the reason is replace with RF = 1; every other
\* input range is listed once, under one endpoint.
C32_AbsentIffNoPeerAccepted ==
    PlanReturned =>
        \A r \in DOMAIN ranges_with_sources :
            LET addresses == ranges_with_sources[r]
                left_out == /\ EveryPeerRejected(addresses)
                            /\ \/ LocalAmong(addresses)
                               \/ reason = "replace" /\ replication_factor = 1
            IN  IF left_out
                THEN Occurrences(fm_result.map, r) = {}
                ELSE Cardinality(Occurrences(fm_result.map, r)) = 1

\* One range whose candidates are the local node followed by an accepted peer
\* is planned under that peer, and one whose only peer is rejected while the
\* local node is a candidate is left out.
C32_Witness ==
    /\ PlanReturned
    /\ reason = "bootstrap"
    /\ source_filters = {{"C"}}
    /\ \E r1, r2 \in DOMAIN ranges_with_sources :
         /\ ranges_with_sources[r1] = <<Self, "B">>
         /\ ranges_with_sources[r2] = <<Self, "C">>
         /\ Occurrences(fm_result.map, r1) = {<<"B", 1>>}
         /\ Occurrences(fm_result.map, r2) = {}

(***************************************************************************)
(* stream_async: the keyspaces are processed one after another             *)
(***************************************************************************)

\* parallel_for_each has created the tasks of entry k in this call.
Dispatched(k) == \E source \in DOMAIN tasks[k] : tasks[k][source].pc # "idle"

\* Some task of entry k has failed in this call.
SomeTaskFailed(k) == \E source \in DOMAIN tasks[k] : tasks[k][source].pc = "failed"

\* C33: within a call of stream_async the tasks of an entry exist, and so
\* execute stream plans, only when every task of the entries before it has
\* ended without failure; after a failure in an entry the entries after it
\* have no task that ran a stream plan, keep the range lists they had at the
\* start of the call and stay counted by nr_ranges_to_stream().
C33_KeyspacesOneAfterAnother ==
    \A k \in DOMAIN tasks :
        /\ Dispatched(k) =>
               \A j \in 1..(k - 1) : \A source \in DOMAIN tasks[j] :
                   tasks[j][source].pc = "done"
        /\ SomeTaskFailed(k) =>
               /\ \A j \in (k + 1)..Len(to_stream) :
                      /\ \A source \in DOMAIN tasks[j] : tasks[j][source] = IdleTask
                      /\ to_stream[j] = to_stream_at_start[j]
               /\ nr_ranges_to_stream >= NrRangesFrom(to_stream_at_start, k + 1)
               /\ nr_ranges_to_stream > 0

\* A call ended in failure: in the first keyspace one source completed a
\* stream plan and another failed, and the second keyspace, which has ranges
\* to stream, was never started.
C33_Witness ==
    /\ stream_pc = "failed"
    /\ Len(to_stream) = 2
    /\ \E b, c \in DOMAIN tasks[1] :
         /\ tasks[1][b].pc = "done" /\ tasks[1][b].completed # <<>>
         /\ tasks[1][c].pc = "failed"
    /\ NrRangesFrom(to_stream, 2) > 0
    /\ \A source \in DOMAIN tasks[2] : tasks[2][source].pc = "idle"

(***************************************************************************)
(* stream_async: completion                                                *)
(***************************************************************************)

WaitsForLimiter(k, source) ==
    /\ k \in DOMAIN tasks
    /\ source \in DOMAIN tasks[k]
    /\ tasks[k][source].pc = "waiting"

StreamAsyncCompleted == stream_pc \in {"succeeded", "failed"}

\* C34: when every stream plan execution completes, a running stream_async
\* completes, and it completes with no task left waiting for a unit of the
\* limiter: every task that waited obtained its unit and ran to its end.
C34_StreamAsyncCompletes ==
    /\ (stream_pc = "running") ~> StreamAsyncCompleted
    /\ [](StreamAsyncCompleted =>
            \A k \in 1..MaxKeyspaces : \A source \in StreamSources :
                ~WaitsForLimiter(k, source))

\* Every unit of the limiter is held by a task executing a stream plan while a
\* third task of the keyspace waits for one.
C34_Witness ==
    /\ stream_pc = "running"
    /\ limiter = 0
    /\ Cardinality(Executing) = LimiterPermits
    /\ \E source \in StreamSources : WaitsForLimiter(1, source)

(***************************************************************************)
(* add_ranges: a call that fails after the direction test                  *)
(***************************************************************************)

\* The step is an add_ranges call that failed in the resolution of the
\* sources or in the planning of the fetch map.
AddRangesFailsResolving ==
    /\ AddCallStep
    /\ last_add'.op = "add_ranges"
    /\ last_add'.threw
    /\ last_add'.error # MixedError

\* C35: an add_ranges call that fails while resolving sources or planning the
\* fetch map leaves the work list exactly as it was and still counts as
\* added ranges to receive; the count never goes down, and every add_tx_ranges
\* call made while it is non-zero is rejected as mixed sending and receiving
\* without changing the work list.
C35_Step ==
    /\ AddRangesFailsResolving =>
           /\ to_stream' = to_stream
           /\ nr_rx_added' = nr_rx_added + 1
           /\ nr_tx_added' = 0
    /\ nr_rx_added' >= nr_rx_added
    /\ (AddCallStep /\ last_add'.op = "add_tx_ranges" /\ nr_rx_added > 0) =>
           /\ last_add'.threw
           /\ last_add'.error = MixedError
           /\ to_stream' = to_stream

C35_FailedAddRangesMarksReceiving == [][C35_Step]_vars

\* An entry was enqueued, then an add_ranges call failed, then add_tx_ranges
\* was rejected: two calls are counted as receiving and the work list holds
\* the one entry.
C35_Witness ==
    /\ call_budget = 0
    /\ nr_rx_added = 2
    /\ Len(to_stream) = 1
    /\ last_add.op = "add_tx_ranges"
    /\ last_add.threw /\ last_add.error = MixedError

(***************************************************************************)
(* add_ranges for a replace                                                *)
(***************************************************************************)

\* The errors only the strict resolver raises.
StrictModeErrors ==
    {"Expected 1 endpoint", "Multiple endpoints found",
     "Can not find desired_range in pending_range_addresses", DownError}

\* Strict resolution of the call's ranges would have failed in every iteration order.
StrictWouldFail(call) ==
    \A order \in Orderings(DOMAIN range_addresses) :
        get_all_ranges_with_strict_sources_for(
            call.ranges, range_addresses, pending_range_addresses,
            replication_factor, gossiper_enabled, alive, order).threw

\* C36: an add_ranges call with is_replacing = true resolves its sources in
\* normal mode, also when every condition of strict mode holds, and fails with
\* none of the errors of strict mode.
C36_Step ==
    (AddCallStep /\ last_add'.op = "add_ranges" /\ last_add'.is_replacing) =>
        /\ ~last_add'.strict
        /\ ResolvedNormally(last_add')
        /\ last_add'.error \notin StrictModeErrors

C36_ReplaceResolvesNormally == [][C36_Step]_vars

\* A replace in a configuration eligible for strict mode, with gossip enabled,
\* in which strict resolution of the range fails, has resolved the range to
\* both active replicas and succeeded.
C36_Witness ==
    /\ last_add.op = "add_ranges"
    /\ last_add.is_replacing
    /\ StrictEligible
    /\ gossiper_enabled
    /\ ~last_add.threw
    /\ last_add.ranges = <<<<0, 1>>>>
    /\ Len(last_add.range_sources[<<0, 1>>]) = 2
    /\ StrictWouldFail(last_add)

(***************************************************************************)
(* consume with a schema of another version                                *)
(***************************************************************************)

SchemaCheckFailed == consume_result.error = SchemaMismatch

\* C37: a consume or consume_gently call with a schema whose version differs
\* from the frozen mutation's has failed with the schema mismatch error
\* without delivering any event to the consumer: no consume_new_partition, no
\* content, no end of partition and no end of stream; the visit was not
\* started and the adaptor is as the call found it.
C37_MismatchDeliversNothing ==
    SchemaCheckFailed =>
        /\ consume_pc = "failed"
        /\ events = <<>>
        /\ ~stop_requested
        /\ visit_queue = <<>>
        /\ adaptor = adaptor_at_call

\* A consume_gently call on a frozen mutation with a static row, a range
\* tombstone and a clustering row failed the schema check, after an earlier
\* call on the same adaptor.
C37_Witness ==
    /\ SchemaCheckFailed
    /\ gently
    /\ consume_calls = 2
    /\ frozen.static_cells = 1
    /\ frozen.range_tombstones # <<>>
    /\ frozen.rows # <<>>

(***************************************************************************)
(* The stop state of an adaptor across consume calls                       *)
(***************************************************************************)

\* The consumer methods called in the current consume call, in order.
EventTypes == [i \in DOMAIN events |-> events[i].type]

\* What a call on a stopped adaptor delivers when the consumer does not throw.
StoppedReplay ==
    <<"new_partition", "partition_tombstone", "end_of_partition", "end_of_stream">>

\* The current call was made on an adaptor whose consumer had requested a stop.
CallFoundAdaptorStopped ==
    /\ consume_calls > 0
    /\ adaptor_at_call.stop_consuming
    /\ ~SchemaCheckFailed

\* C38: the stop state of the adaptor never goes back from yes to no, neither
\* in on_new_partition nor elsewhere.  A consume call made on an adaptor that
\* is stopped delivers no static row, clustering row or range tombstone
\* change: what it delivers is a prefix of consume_new_partition, the
\* partition tombstone, end of partition, end of stream; it delivers all four
\* and returns stop = yes unless one of these consumer methods throws.
C38_StateOfStoppedCall ==
    CallFoundAdaptorStopped =>
        /\ adaptor.stop_consuming
        /\ \A i \in DOMAIN events : events[i].type \notin ContentEvents
        /\ Len(events) <= Len(StoppedReplay)
        /\ EventTypes = SubSeq(StoppedReplay, 1, Len(events))
        /\ consume_pc = "returned" =>
               /\ EventTypes = StoppedReplay
               /\ consume_result.stop
               /\ consume_result.error = ""
        /\ consume_pc = "failed" => events[Len(events)].reply = "throw"

C38_StopStatePersists ==
    /\ []C38_StateOfStoppedCall
    /\ [][adaptor.stop_consuming => adaptor'.stop_consuming]_vars

\* A second call on an adaptor that the first call left stopped has returned:
\* the mutation has a static row, a range tombstone and a row, and the
\* consumer saw the four events only.
C38_Witness ==
    /\ consume_calls = 2
    /\ CallFoundAdaptorStopped
    /\ consume_pc = "returned"
    /\ frozen.static_cells = 1
    /\ frozen.range_tombstones # <<>>
    /\ frozen.rows # <<>>
    /\ Len(events) = 4
    /\ events[3].reply = "no"

(***************************************************************************)
(* query::result_merger::get (query.cc)                                    *)
(***************************************************************************)

Min(a, b) == IF a <= b THEN a ELSE b

\* A partition of a query result is modelled by the number of its clustering
\* rows; a partition without clustering rows holds a static row only.
ResultPartitions == SeqUpTo(0..MaxPartitionRows, MaxResultPartitions)

\* Line 365: rows.size() ? : 1.
rows_in_partition(pv) == IF pv # 0 THEN pv ELSE 1

\* result_view::count_partitions_and_rows: what a result actually holds.
RECURSIVE CountRows(_)
CountRows(partitions) ==
    IF partitions = <<>> THEN 0
    ELSE rows_in_partition(Head(partitions)) + CountRows(Tail(partitions))

\* The partial results the shards hand to the merger: their recorded counts
\* are those of their content, and their last position is present.
PartialResults ==
    {[partitions |-> pvs, short_read |-> sr, row_count |-> CountRows(pvs),
      partition_count |-> Len(pvs), last_position |-> 1] :
        pvs \in ResultPartitions, sr \in BOOLEAN}

\* A write_partial_partition that writes every row of the partition.
WritePartialPartitionWhole(pv, rows_to_include) == pv

\* write_partial_partition, lines 325-344: the key, the static row and the
\* first min(rows.size(), rows_to_include) rows.
write_partial_partition(pv, rows_to_include) == Min(pv, rows_to_include)

\* Lines 370 and 388: partition_count >= _max_partitions.
PartitionLimitReached(partition_count, limit) == partition_count >= limit

\* The lambda of lines 360-381 from partition i of a partial result on.  The
\* field completed tells that the loop ran to its end, so that line 380 took
\* the partial result's last position.
RECURSIVE MergePartitions(_, _, _, _, _)
MergePartitions(pvs, i, limit_rows, limit_partitions, acc) ==
    IF i > Len(pvs) THEN [acc EXCEPT !.completed = TRUE]
    ELSE LET in_partition == rows_in_partition(pvs[i])
             rows_to_include == Min(limit_rows - acc.row_count, in_partition)
             counted == [acc EXCEPT !.row_count = @ + rows_to_include]
         IN  IF rows_to_include >= in_partition
             THEN LET added == [counted EXCEPT !.partitions = Append(@, pvs[i]),
                                               !.partition_count = @ + 1]
                  IN  IF PartitionLimitReached(added.partition_count, limit_partitions)
                      THEN added
                      ELSE MergePartitions(pvs, i + 1, limit_rows, limit_partitions, added)
             ELSE IF rows_to_include > 0
             THEN [counted EXCEPT
                      !.partitions = Append(@, write_partial_partition(pvs[i], rows_to_include)),
                      !.partition_count = @ + 1]
             ELSE counted

\* The loop of lines 359-392 from partial result k on.
RECURSIVE MergePartials(_, _, _, _, _)
MergePartials(partials, k, limit_rows, limit_partitions, acc) ==
    IF k > Len(partials) THEN acc
    ELSE LET r == partials[k]
             viewed == MergePartitions(r.partitions, 1, limit_rows, limit_partitions,
                                       [acc EXCEPT !.completed = FALSE, !.last_position = 0])
             taken == IF viewed.completed
                      THEN [viewed EXCEPT !.last_position = r.last_position]
                      ELSE viewed
         IN  IF r.short_read
             THEN [taken EXCEPT !.short_read = TRUE, !.last_position = 0]
             ELSE IF \/ taken.row_count >= limit_rows
                     \/ PartitionLimitReached(taken.partition_count, limit_partitions)
             THEN [taken EXCEPT !.last_position = 0]
             ELSE MergePartials(partials, k + 1, limit_rows, limit_partitions, taken)

\* Lines 347-349: a single partial result is returned as it is.
SinglePartialReturned(partials) == Len(partials) = 1

\* result_merger::get, lines 346-402.
get(partials, limit_rows, limit_partitions) ==
    IF SinglePartialReturned(partials) THEN partials[1]
    ELSE LET done == MergePartials(partials, 1, limit_rows, limit_partitions,
                         [partitions |-> <<>>, short_read |-> FALSE, row_count |-> 0,
                          partition_count |-> 0, last_position |-> 0, completed |-> FALSE])
         IN  [partitions |-> done.partitions, short_read |-> done.short_read,
              row_count |-> done.row_count, partition_count |-> done.partition_count,
              last_position |-> done.last_position]

ForwardIdle ==
    /\ query_results = <<>>
    /\ merge_outcome = "none"
    /\ merge_args = [other |-> <<>>, reduction_types |-> <<>>, receiver |-> <<>>]
    /\ merge_calls = 0

\* A result_merger with its limits and the partial results it was given.
MergerInit ==
    /\ partial \in SeqUpTo(PartialResults, MaxPartials)
    /\ max_rows \in 0..MaxRowLimit
    /\ max_partitions \in 0..MaxPartitionLimit
    /\ merger_pc = "call"
    /\ get_result = EmptyResult
    /\ ForwardIdle
    /\ PlanIdle
    /\ replication_factor = 1
    /\ RingIdle
    /\ StrictIdle
    /\ ConfigIdle
    /\ AddIdle
    /\ StreamIdle
    /\ ConsumeIdle
    /\ CodecIdle

\* One call of get(); _partial is moved from or left as it is.
MergerGet ==
    /\ merger_pc = "call"
    /\ get_result' = get(partial, max_rows, max_partitions)
    /\ merger_pc' = "returned"
    /\ UNCHANGED <<partial, max_rows, max_partitions, query_results, merge_outcome,
                   merge_args, merge_calls, planVars, ringVars, strictVars, configVars,
                   addVars, streamVars, consumeVars, codecVars>>

MergerNext == MergerGet

SpecMerger == MergerInit /\ [][MergerNext]_vars

(***************************************************************************)
(* Properties of result_merger::get                                        *)
(***************************************************************************)

\* The recorded counts of a result are those of the partitions it holds.
CountsAreExact(result) ==
    /\ result.row_count = CountRows(result.partitions)
    /\ result.partition_count = Len(result.partitions)

\* C39 as stated: whatever partial results the merger was given, the result
\* of get() holds at most _max_rows rows and at most _max_partitions
\* partitions, a partition without clustering rows counting as one row, and
\* its recorded counts are exact.
C39_MergedWithinLimits ==
    merger_pc = "returned" =>
        /\ CountRows(get_result.partitions) <= max_rows
        /\ Len(get_result.partitions) <= max_partitions
        /\ CountsAreExact(get_result)

\* C39 amended: a merger that was given a single partial result returns it as
\* it is, whatever the limits; given none or several, the result of get()
\* holds at most _max_rows rows and at most max(1, _max_partitions)
\* partitions, and its recorded counts are exact.
C39_MergedWithinLimitsUnlessSingle ==
    merger_pc = "returned" =>
        IF Len(partial) = 1
        THEN get_result = partial[1]
        ELSE /\ CountRows(get_result.partitions) <= max_rows
             /\ Len(get_result.partitions) <= Max(1, max_partitions)
             /\ CountsAreExact(get_result)

\* Three partial results of two rows each merged under a limit of three rows:
\* the first partition is taken whole, the second is cut to one row and the
\* third partial result is not looked at.
C39_Witness ==
    /\ merger_pc = "returned"
    /\ Len(partial) = 3
    /\ \A k \in 1..3 : partial[k].partitions = <<2>> /\ ~partial[k].short_read
    /\ max_rows = 3
    /\ max_partitions = 2
    /\ get_result.partitions = <<2, 1>>
    /\ get_result.row_count = 3

(***************************************************************************)
(* query::forward_result::merge (query.cc)                                 *)
(***************************************************************************)

\* bytes_opt: a disengaged optional, or one holding bytes.
NullOpt == [engaged |-> FALSE, value |-> <<>>]
Engaged(bytes) == [engaged |-> TRUE, value |-> bytes]

\* data_value(int64_t).serialize(): the eight bytes of the number, high byte first.
SerializeLong(n) ==
    [i \in 1..8 |-> IF i <= 4 THEN 0 ELSE (n \div (256 ^ (8 - i))) % 256]

\* value_cast<int64_t>(long_type->deserialize(bytes)).
DeserializeLong(bytes) ==
    bytes[5] * (256 ^ 3) + bytes[6] * (256 ^ 2) + bytes[7] * 256 + bytes[8]

\* The counts a shard reports for a count reduction.
Counts == 0..MaxCount

\* forward_result::query_results as a shard fills it: one serialized count a slot.
CountResults == SeqUpTo({Engaged(SerializeLong(n)) : n \in Counts}, MaxSlots)

\* std::vector<forward_request::reduction_type>: count is the only reduction.
ReductionTypeLists == SeqUpTo({"count"}, MaxSlots)

\* What `*r1` yields for a disengaged r1.  The behaviour is undefined: the
\* build may stop the process at the assertion of std::optional, or read the
\* unconstructed storage of the optional as a number.
GarbageCounts == {0, 1}

\* Line 420: query_results.resize(other.query_results.size()) fills the
\* receiver with disengaged optionals.
Resize(n) == [i \in 1..n |-> NullOpt]

\* Line 423: the receiver, other and the reduction types must agree in size.
SizesInvalid(results, other, reduction_types) ==
    Len(results) # Len(other) \/ Len(results) # Len(reduction_types)

\* merge_singular_results for the count reduction, lines 404-413: both
\* optionals are dereferenced; read is what `*r1` yields where r1 is disengaged.
merge_singular_results(r1, r2, read) ==
    LET count1 == IF r1.engaged THEN DeserializeLong(r1.value) ELSE read
        count2 == DeserializeLong(r2.value)
    IN  Engaged(SerializeLong(count1 + count2))

\* forward_result::merge, lines 415-434.
Merge ==
    /\ merge_outcome # "terminated"
    /\ merge_calls < MaxMerges
    /\ merge_calls' = merge_calls + 1
    /\ \E other \in CountResults, reduction_types \in ReductionTypeLists :
         LET results == IF query_results = <<>> THEN Resize(Len(other)) ELSE query_results
         IN  /\ merge_args' = [other |-> other, reduction_types |-> reduction_types,
                               receiver |-> query_results]
             /\ IF SizesInvalid(results, other, reduction_types)
                THEN /\ merge_outcome' = "internal_error"
                     /\ query_results' = results
                ELSE IF \A i \in DOMAIN results : results[i].engaged
                THEN /\ merge_outcome' = "merged"
                     /\ query_results' =
                            [i \in DOMAIN results |->
                                merge_singular_results(results[i], other[i], 0)]
                ELSE \/ /\ merge_outcome' = "terminated"
                        /\ query_results' = results
                     \/ \E read \in [DOMAIN results -> GarbageCounts] :
                          /\ merge_outcome' = "merged"
                          /\ query_results' =
                                 [i \in DOMAIN results |->
                                     merge_singular_results(results[i], other[i], read[i])]
    /\ UNCHANGED <<partial, max_rows, max_partitions, merger_pc, get_result, planVars,
                   ringVars, strictVars, configVars, addVars, streamVars, consumeVars,
                   codecVars>>

MergerIdle ==
    /\ partial = <<>>
    /\ max_rows = 0
    /\ max_partitions = 0
    /\ merger_pc = "idle"
    /\ get_result = EmptyResult

\* A forward_result, new or holding the counts of an earlier reduction.
ForwardInit ==
    /\ query_results \in CountResults
    /\ merge_outcome = "none"
    /\ merge_args = [other |-> <<>>, reduction_types |-> <<>>, receiver |-> <<>>]
    /\ merge_calls = 0
    /\ MergerIdle
    /\ PlanIdle
    /\ replication_factor = 1
    /\ RingIdle
    /\ StrictIdle
    /\ ConfigIdle
    /\ AddIdle
    /\ StreamIdle
    /\ ConsumeIdle
    /\ CodecIdle

ForwardNext == Merge

SpecForward == ForwardInit /\ [][ForwardNext]_vars

(***************************************************************************)
(* Properties of forward_result::merge                                     *)
(***************************************************************************)

\* The counts held by results whose slots are all engaged.
CountsOf(results) == [i \in DOMAIN results |-> DeserializeLong(results[i].value)]

AllEngaged(results) == \A i \in DOMAIN results : results[i].engaged

\* C40: a merge into an empty forward_result leaves it with exactly other's
\* results; a merge of two non-empty results of the size of the reduction-type
\* list replaces each slot by the sum of the two counts; and a call whose
\* sizes disagree raises an internal error.
C40_CountMergeLaw ==
    merge_calls > 0 =>
        LET receiver == merge_args.receiver
            other == merge_args.other
            reduction_types == merge_args.reduction_types
        IN  IF receiver = <<>> /\ Len(other) = Len(reduction_types)
            THEN merge_outcome = "merged" /\ query_results = other
            ELSE IF Len(receiver) = Len(other) /\ Len(other) = Len(reduction_types)
            THEN /\ merge_outcome = "merged"
                 /\ AllEngaged(query_results)
                 /\ AllEngaged(receiver) =>
                        CountsOf(query_results) =
                            [i \in DOMAIN other |->
                                CountsOf(receiver)[i] + CountsOf(other)[i]]
            ELSE merge_outcome = "internal_error"

====
